---------------------------- MODULE Spec2Model ----------------------------
(***************************************************************************)
(* A model of the finlex downloader: the URI resolver (urls.py), the       *)
(* lister (listing.py), the fetcher (downloader.py), the checkpoint and    *)
(* manifest stores (state.py) and the orchestrator (cli.py).               *)
(*                                                                         *)
(* Representation of values                                                *)
(*   - a string that is used as a path or a uri is the sequence of its     *)
(*     "/"-separated segments, i.e. what str.split("/") returns:           *)
(*     "/akn/fi/act" is <<"", "akn", "fi", "act">>, "" is <<"">>;          *)
(*   - Optional[T] is a sequence of length at most one: None is <<>> and   *)
(*     a present value v is <<v>>;                                         *)
(*   - a file on disk is a record with a kind: "absent", "torn" (opened    *)
(*     for writing and truncated, content not yet complete) or "json".     *)
(***************************************************************************)
EXTENDS Integers, Sequences, FiniteSets, TLC

None == <<>>
Some(v) == <<v>>
IsNone(o) == o = <<>>

(***************************************************************************)
(* urls.py                                                                 *)
(***************************************************************************)

\* The segments on which \d+ matches, among the segments the model uses.
DigitSegs == {"2024", "1996", "1", "2"}

IsDigits(s) == s \in DigitSegs

\* urllib.parse.unquote on one segment: the segments of the decoded text
\* (a decoded %2F splits the segment in two).
UnquoteSeg(s) ==
    CASE s = "fin%40" -> <<"fin@">>
      [] s = "1%2F2"  -> <<"1", "2">>
      [] OTHER        -> <<s>>

RECURSIVE Unquote(_)
Unquote(segs) ==
    IF segs = <<>> THEN <<>>
    ELSE UnquoteSeg(Head(segs)) \o Unquote(Tail(segs))

\* uri.startswith("http")
StartsWithHttp(uri) == uri[1] \in {"http:", "https:"}

\* Hosts on which urlparse raises ValueError: a "[" without "]" or a "]"
\* without "[" ("Invalid IPv6 URL").
BadNetlocs == {"[bad"}

\* urlparse(uri) raises: the text after "//" up to the next "/" is such a host.
urlparse_raises(uri) ==
    /\ uri[1] \in {"http:", "https:"}
    /\ Len(uri) >= 3 /\ uri[2] = ""
    /\ uri[3] \in BadNetlocs

\* urlparse(uri).path for scheme://host/path and scheme:/path
UrlPath(uri) ==
    IF Len(uri) >= 3 /\ uri[2] = ""
    THEN (IF Len(uri) >= 4 THEN <<"">> \o SubSeq(uri, 4, Len(uri)) ELSE <<"">>)
    ELSE (IF Len(uri) >= 2 THEN <<"">> \o SubSeq(uri, 2, Len(uri)) ELSE <<"">>)

\* Positions at which "/finlex/avoindata/v1" occurs in a path.
BaseAt(path) ==
    {i \in 2..(Len(path) - 2) :
        path[i] = "finlex" /\ path[i + 1] = "avoindata" /\ path[i + 2] = "v1"}

Max(S) == CHOOSE m \in S : \A n \in S : n <= m

\* path.split("/finlex/avoindata/v1")[-1] when the base path occurs
StripBase(path) ==
    IF BaseAt(path) = {} THEN path
    ELSE <<"">> \o SubSeq(path, Max(BaseAt(path)) + 3, Len(path))

\* The path parse_akn_uri matches the patterns against.
UriPath(uri) ==
    IF StartsWithHttp(uri) THEN StripBase(Unquote(UrlPath(uri)))
    ELSE Unquote(uri)

Categories == {"act", "judgment", "doc"}

AUTHORITY_PATTERN(p) ==
    /\ Len(p) = 9
    /\ p[1] = "" /\ p[2] = "akn" /\ p[3] = "fi"
    /\ p[4] = "doc" /\ p[5] = "authority-regulation"
    /\ p[6] # "" /\ IsDigits(p[7]) /\ p[8] # "" /\ p[9] # ""

STANDARD_PATTERN(p) ==
    /\ Len(p) = 8
    /\ p[1] = "" /\ p[2] = "akn" /\ p[3] = "fi"
    /\ p[4] \in Categories
    /\ p[5] # "" /\ IsDigits(p[6]) /\ p[7] # "" /\ p[8] # ""

DocumentInfo(c, t, a, y, n, l) ==
    [category |-> c, document_type |-> t, authority |-> a,
     year |-> y, number |-> n, lang_and_version |-> l]

\* parse_akn_uri raises instead of returning: the ValueError of urlparse
\* is not caught.
parse_akn_uri_raises(uri) == urlparse_raises(uri)

\* parse_akn_uri: None, or the DocumentInfo of the uri (None stands in for
\* the uris on which it raises: nothing is returned for them).
parse_akn_uri(uri) ==
    LET p == UriPath(uri) IN
    IF parse_akn_uri_raises(uri) THEN None
    ELSE IF AUTHORITY_PATTERN(p)
    THEN Some(DocumentInfo("doc", "authority-regulation", Some(p[6]), p[7], p[8], p[9]))
    ELSE IF STANDARD_PATTERN(p)
    THEN Some(DocumentInfo(p[4], p[5], None, p[6], p[7], p[8]))
    ELSE None

\* pathlib.Path(*segments): a "." segment is dropped.
PurePath(segs) == SelectSeq(segs, LAMBDA s : s # ".")

\* if self.authority: an authority that is not None and not ""
HasAuthority(info) == ~IsNone(info.authority) /\ info.authority[1] # ""

\* DocumentInfo.folder_path
folder_path(info) ==
    IF HasAuthority(info)
    THEN PurePath(<<info.category, info.document_type, info.authority[1],
                    info.year, info.number, info.lang_and_version>>)
    ELSE PurePath(<<info.category, info.document_type,
                    info.year, info.number, info.lang_and_version>>)

build_api_path(info) ==
    IF HasAuthority(info)
    THEN <<"", "akn", "fi", info.category, info.document_type, info.authority[1],
           info.year, info.number, info.lang_and_version>>
    ELSE <<"", "akn", "fi", info.category, info.document_type,
           info.year, info.number, info.lang_and_version>>

build_list_path(category, document_type) ==
    <<"", "akn", "fi", category, document_type, "list">>


(***************************************************************************)
(* The state of the program and of its environment                         *)
(***************************************************************************)
VARIABLES
    state,          \* StateManager.state, the DownloadState in memory
    state_file,     \* the checkpoint file .state.json on disk
    entries,        \* ManifestManager.entries, in memory
    manifest_file,  \* the manifest file manifest.json on disk
    files,          \* document files on disk: path -> "partial" or "full"
    dirs,           \* document directories created on disk
    requests,       \* the requests the transport has been asked for, in order
    lister,         \* the list_documents generator
    yielded,        \* the items the generator has yielded, in order
    run,            \* run_download: arguments, loop position, locals
    call,           \* download_document: arguments, position, locals, result
    clock,          \* datetime.now()
    lastOp,         \* the checkpoint operation that returned last
    ret,            \* what it returned
    hist            \* history: what was marked, what was saved

vars == <<state, state_file, entries, manifest_file, files, dirs, requests,
          lister, yielded, run, call, clock,
          lastOp, ret, hist>>

\* The checkpoint operation that returned last, with its arguments.
NoOp == [op |-> "none", uri |-> None, category |-> "", document_type |-> "", page |-> 0]
Op(name) == [NoOp EXCEPT !.op = name]

\* History of the checkpoint store since its construction: the uris passed to
\* mark_completed, those passed when already present, whether reset or load
\* was called, and the in-memory state at the last save (None once the file
\* is deleted); what the download_document call in progress found when it
\* was entered, and the call before it; the document directories whose
\* main.xml was once written in full from a 200 response; the values other
\* than 1 that the set_page calls of run_download have stored, each with the
\* pair that was active at the time; the number of manifest entries the run
\* in progress loaded when it started.
HistInit ==
    [marked |-> {}, remarked |-> {}, noResetLoad |-> TRUE, saved |-> None,
     entry |-> None, prev |-> None, fetched |-> {}, stored |-> {}, loaded |-> 0]

(***************************************************************************)
(* state.py: DownloadState and StateManager                                *)
(***************************************************************************)

\* DownloadState(): the dataclass defaults
DownloadState ==
    [current_category |-> None, current_document_type |-> None,
     current_page |-> 1, last_uri |-> None, completed_uris |-> {},
     started_at |-> None, updated_at |-> None]

\* list(a_set): the elements in any order
ListsOf(S) ==
    {q \in [1..Cardinality(S) -> S] : \A i, j \in 1..Cardinality(S) : q[i] = q[j] => i = j}

\* set(a_list)
SetOf(q) == {q[i] : i \in 1..Len(q)}

\* DownloadState.to_dict: the dicts it can return (completed_uris as a list)
to_dict(st) ==
    {[current_category |-> st.current_category,
      current_document_type |-> st.current_document_type,
      current_page |-> st.current_page,
      last_uri |-> st.last_uri,
      completed_uris |-> q,
      started_at |-> st.started_at,
      updated_at |-> st.updated_at] : q \in ListsOf(st.completed_uris)}

\* from_dict that reads the completed uris under a wrong key (default [])
from_dict_wrong_key(data) ==
    [current_category |-> data.current_category,
     current_document_type |-> data.current_document_type,
     current_page |-> data.current_page,
     last_uri |-> data.last_uri,
     completed_uris |-> {},
     started_at |-> data.started_at,
     updated_at |-> data.updated_at]

\* DownloadState.from_dict
from_dict(data) ==
    [current_category |-> data.current_category,
     current_document_type |-> data.current_document_type,
     current_page |-> data.current_page,
     last_uri |-> data.last_uri,
     completed_uris |-> SetOf(data.completed_uris),
     started_at |-> data.started_at,
     updated_at |-> data.updated_at]

EmptyDict == CHOOSE d \in to_dict(DownloadState) : TRUE

FileAbsent == [kind |-> "absent", data |-> EmptyDict]
\* open(path, "w") has truncated the file and json.dump has not completed
FileTorn == [kind |-> "torn", data |-> EmptyDict]
FileJson(d) == [kind |-> "json", data |-> d]

\* StateManager.save, first half: stamp updated_at (the file is then opened)
save_stamp(st, now) == [st EXCEPT !.updated_at = Some(now)]

\* StateManager.save, second half: the file contents json.dump can leave
save_dump(st) == {FileJson(d) : d \in to_dict(st)}

\* A start_session that stamps started_at on every call.
start_session_restamps(st, category, document_type, now) ==
    [st EXCEPT !.started_at = Some(now),
               !.current_category = Some(category),
               !.current_document_type = Some(document_type)]

\* StateManager.start_session, before its save()
start_session(st, category, document_type, now) ==
    [st EXCEPT !.started_at = IF IsNone(st.started_at) THEN Some(now) ELSE @,
               !.current_category = Some(category),
               !.current_document_type = Some(document_type)]

\* mark_completed that replaces the set instead of adding to it
mark_completed_replace(st, uri) ==
    [st EXCEPT !.completed_uris = {uri}, !.last_uri = Some(uri)]

\* StateManager.mark_completed, before its save()
mark_completed(st, uri) ==
    [st EXCEPT !.completed_uris = @ \cup {uri}, !.last_uri = Some(uri)]

\* StateManager.is_completed
is_completed(st, uri) == uri \in st.completed_uris

\* StateManager.set_page, before its save()
set_page(st, page) == [st EXCEPT !.current_page = page]

\* get_resume_page that compares the category only
get_resume_page_category_only(st, category, document_type) ==
    IF st.current_category = Some(category) THEN st.current_page ELSE 1

\* StateManager.get_resume_page
get_resume_page(st, category, document_type) ==
    IF st.current_category = Some(category)
       /\ st.current_document_type = Some(document_type)
    THEN st.current_page
    ELSE 1

\* What a set_page(page) on st stores: the page, under the pair active in st.
StoredPage(st, page) == <<st.current_category, st.current_document_type, page>>

\* StateManager.load: <<returned value, state afterwards>>
load(st, file) ==
    IF file.kind = "absent" THEN <<FALSE, st>>
    ELSE IF file.kind = "json" THEN <<TRUE, from_dict(file.data)>>
    ELSE <<FALSE, st>>


\* A reset that forgets the checkpoint in memory and leaves the file.
reset_keeps_file(st, file) == <<DownloadState, file>>

\* StateManager.reset: <<state afterwards, file afterwards>>
reset(st, file) == <<DownloadState, FileAbsent>>

(***************************************************************************)
(* listing.py: list_documents, a generator                                 *)
(***************************************************************************)

ListConfig(category, document_type, limit, max_pages) ==
    [category |-> category, document_type |-> document_type,
     limit |-> limit, max_pages |-> max_pages]

NoConfig == ListConfig("", "", 0, None)

\* A transport outcome: a response (status code, body) or an exception.
\* The body of a list response is its parsed JSON (None: not parseable);
\* the body of a document is the set of media links it refers to.
Response(status, json, links) ==
    [kind |-> "response", status_code |-> status, json |-> json, links |-> links]
TransportError ==
    [kind |-> "exception", status_code |-> 0, json |-> None, links |-> {}]

\* One exchange with the transport, as logged.
Exchange(kind, path, page, limit, uri, resp) ==
    [kind |-> kind, path |-> path, page |-> page, limit |-> limit,
     uri |-> uri, resp |-> resp]

\* ListItem(akn_uri=item.get("akn_uri", ""), status=item.get("status", ""))
ListItem(item) ==
    [akn_uri |-> IF IsNone(item.akn_uri) THEN <<"">> ELSE item.akn_uri[1],
     status |-> IF IsNone(item.status) THEN "" ELSE item.status[1]]

NoItem == [akn_uri |-> <<"">>, status |-> ""]

ListerIdle ==
    [pc |-> "idle", config |-> NoConfig, page |-> 1, items |-> <<>>, idx |-> 1,
     terminal |-> "none"]

\* list_documents(client, config): the generator before its first next()
list_documents(config) == [ListerIdle EXCEPT !.pc = "top", !.config = config]

\* config.max_pages and page > config.max_pages
PageLimitReached(l) ==
    /\ ~IsNone(l.config.max_pages)
    /\ l.config.max_pages[1] # 0
    /\ l.page > l.config.max_pages[1]

Stopped(l, why) == [l EXCEPT !.pc = "done", !.terminal = why]

\* after_response that goes on to the next page after a page that failed
after_response_skip_failed(l, resp) ==
    IF resp.kind = "exception" THEN [l EXCEPT !.pc = "raised"]
    ELSE IF resp.status_code # 200 \/ IsNone(resp.json) \/ resp.json[1] = <<>>
    THEN [l EXCEPT !.pc = "top", !.page = @ + 1]
    ELSE [l EXCEPT !.pc = "yield",
                   !.items = [i \in 1..Len(resp.json[1]) |-> ListItem(resp.json[1][i])],
                   !.idx = 1]

\* The generator after the transport has answered its page request.
after_response(l, resp) ==
    IF resp.kind = "exception" THEN [l EXCEPT !.pc = "raised"]
    ELSE IF resp.status_code # 200 THEN Stopped(l, "request-failed")
    ELSE IF IsNone(resp.json) THEN Stopped(l, "bad-json")
    ELSE IF resp.json[1] = <<>> THEN Stopped(l, "end-of-data")
    ELSE [l EXCEPT !.pc = "yield",
                   !.items = [i \in 1..Len(resp.json[1]) |-> ListItem(resp.json[1][i])],
                   !.idx = 1]

\* after_response that never sees a short page: the length test is dropped
after_page_no_short_stop(l) == [l EXCEPT !.pc = "top", !.page = @ + 1]

\* The generator after the last item of a page was consumed.
after_page(l) ==
    IF Len(l.items) < l.config.limit THEN Stopped(l, "short-page")
    ELSE [l EXCEPT !.pc = "top", !.page = @ + 1]

\* A generator that runs ahead of its consumer.
PullingAhead == run.pc \in {"next", "download", "set_page"}

\* The consumer of the generator is asking for the next item.
Pulling == run.pc = "next"

ListUnchanged ==
    UNCHANGED <<state, state_file, entries, manifest_file, files, dirs, call,
                clock, lastOp, ret, hist>>

\* while True: the page limit is reached, the generator returns.
ListMaxPages ==
    /\ Pulling /\ lister.pc = "top"
    /\ PageLimitReached(lister)
    /\ lister' = Stopped(lister, "page-limit")
    /\ UNCHANGED <<requests, yielded, run>>
    /\ ListUnchanged

\* client.get_json(path, params) and the handling of its outcome
ListRequest(resp) ==
    /\ Pulling /\ lister.pc = "top"
    /\ ~PageLimitReached(lister)
    /\ requests' = Append(requests,
            Exchange("list",
                     build_list_path(lister.config.category, lister.config.document_type),
                     lister.page, lister.config.limit, None, resp))
    /\ lister' = after_response(lister, resp)
    /\ UNCHANGED <<yielded, run>>
    /\ ListUnchanged

\* yield ListItem(...): the consumer's loop body gets the item
ListYield ==
    /\ Pulling /\ lister.pc = "yield"
    /\ lister.idx <= Len(lister.items)
    /\ yielded' = Append(yielded, lister.items[lister.idx])
    /\ run' = [run EXCEPT !.pc = "item", !.item = lister.items[lister.idx]]
    /\ lister' = [lister EXCEPT !.idx = @ + 1]
    /\ UNCHANGED requests
    /\ ListUnchanged

\* the for loop over the page's items is over
ListPageEnd ==
    /\ Pulling /\ lister.pc = "yield"
    /\ lister.idx > Len(lister.items)
    /\ lister' = after_page(lister)
    /\ UNCHANGED <<requests, yielded, run>>
    /\ ListUnchanged

(***************************************************************************)
(* downloader.py: download_document                                        *)
(***************************************************************************)

DownloadOptions(fetch_pdf, fetch_zip, fetch_media, force, dry_run) ==
    [fetch_pdf |-> fetch_pdf, fetch_zip |-> fetch_zip, fetch_media |-> fetch_media,
     force |-> force, dry_run |-> dry_run]

\* DownloadResult(akn_uri, status="error", timestamp=now)
DownloadResult(akn_uri, now) ==
    [akn_uri |-> akn_uri, status |-> "error", timestamp |-> now,
     files |-> <<>>, error |-> None]

CallIdle ==
    [pc |-> "idle", akn_uri |-> <<"">>,
     options |-> DownloadOptions(FALSE, FALSE, FALSE, FALSE, FALSE),
     doc_dir |-> <<>>, api_path |-> <<>>, links |-> {}, link |-> <<>>,
     result |-> DownloadResult(<<"">>, 0)]

\* path.exists()
Exists(fs, path) == path \in DOMAIN fs

\* open(path, "wb"): the file exists, its content is not complete
WriteOpen(fs, path) ==
    [q \in DOMAIN fs \cup {path} |-> IF q = path THEN "partial" ELSE fs[q]]

\* the write has completed and the file is closed
WriteDone(fs, path) ==
    [q \in DOMAIN fs \cup {path} |-> IF q = path THEN "full" ELSE fs[q]]

XmlPath(doc_dir) == doc_dir \o <<"main.xml">>

\* download_document that tests dry_run before it tests for the file
download_enter_dry_run_first(akn_uri, options, fs, now) ==
    LET info == parse_akn_uri(akn_uri)
        c0 == [CallIdle EXCEPT !.akn_uri = akn_uri, !.options = options,
                               !.result = DownloadResult(akn_uri, now)]
    IN  IF parse_akn_uri_raises(akn_uri)
        THEN [c0 EXCEPT !.pc = "raised"]
        ELSE IF IsNone(info)
        THEN [c0 EXCEPT !.pc = "returned",
                        !.result.error = Some("Failed to parse URI")]
        ELSE LET doc_dir == folder_path(info[1])
                 c1 == [c0 EXCEPT !.doc_dir = doc_dir,
                                  !.api_path = build_api_path(info[1])]
             IN  IF options.dry_run
                 THEN [c1 EXCEPT !.pc = "returned", !.result.status = "dry-run"]
                 ELSE IF Exists(fs, XmlPath(doc_dir)) /\ ~options.force
                 THEN [c1 EXCEPT !.pc = "returned", !.result.status = "skipped",
                                 !.result.files = <<XmlPath(doc_dir)>>]
                 ELSE [c1 EXCEPT !.pc = "get_xml"]

\* download_document that never looks for the file on disk
download_enter_no_exists_check(akn_uri, options, fs, now) ==
    LET info == parse_akn_uri(akn_uri)
        c0 == [CallIdle EXCEPT !.akn_uri = akn_uri, !.options = options,
                               !.result = DownloadResult(akn_uri, now)]
    IN  IF parse_akn_uri_raises(akn_uri)
        THEN [c0 EXCEPT !.pc = "raised"]
        ELSE IF IsNone(info)
        THEN [c0 EXCEPT !.pc = "returned",
                        !.result.error = Some("Failed to parse URI")]
        ELSE LET c1 == [c0 EXCEPT !.doc_dir = folder_path(info[1]),
                                  !.api_path = build_api_path(info[1])]
             IN  IF options.dry_run
                 THEN [c1 EXCEPT !.pc = "returned", !.result.status = "dry-run"]
                 ELSE [c1 EXCEPT !.pc = "get_xml"]

\* download_document up to its first request: the frame that has raised
\* (parse_akn_uri is called outside any try), has returned (unparseable
\* uri, existing file, dry run) or is about to fetch the XML.
download_enter(akn_uri, options, fs, now) ==
    LET info == parse_akn_uri(akn_uri)
        c0 == [CallIdle EXCEPT !.akn_uri = akn_uri, !.options = options,
                               !.result = DownloadResult(akn_uri, now)]
    IN  IF parse_akn_uri_raises(akn_uri)
        THEN [c0 EXCEPT !.pc = "raised"]
        ELSE IF IsNone(info)
        THEN [c0 EXCEPT !.pc = "returned",
                        !.result.error = Some("Failed to parse URI")]
        ELSE LET doc_dir == folder_path(info[1])
                 c1 == [c0 EXCEPT !.doc_dir = doc_dir,
                                  !.api_path = build_api_path(info[1])]
             IN  IF Exists(fs, XmlPath(doc_dir)) /\ ~options.force
                 THEN [c1 EXCEPT !.pc = "returned", !.result.status = "skipped",
                                 !.result.files = <<XmlPath(doc_dir)>>]
                 ELSE IF options.dry_run
                 THEN [c1 EXCEPT !.pc = "returned", !.result.status = "dry-run"]
                 ELSE [c1 EXCEPT !.pc = "get_xml"]

\* doc_dir.mkdir(parents=True, exist_ok=True), reached only before a fetch
dirs_after_enter(c, ds) == IF c.pc = "get_xml" THEN ds \cup {c.doc_dir} ELSE ds

\* What a call found when it was entered.
Entry == [files |-> files, dirs |-> dirs, nreq |-> Len(requests)]

\* The stage that follows the XML, the PDF and the ZIP stage.
AfterZip(c) == IF c.options.fetch_media /\ c.links # {} THEN "media_dir" ELSE "returned"
AfterPdf(c) == IF c.options.fetch_zip THEN "zip" ELSE AfterZip(c)
AfterXml(c) == IF c.options.fetch_pdf THEN "pdf" ELSE AfterPdf(c)

\* Move on to a stage; after the last one, result.status = "success".
Advance(c, stage) ==
    IF stage = "returned"
    THEN [c EXCEPT !.pc = "returned", !.result.status = "success"]
    ELSE [c EXCEPT !.pc = stage]

DlUnchanged ==
    UNCHANGED <<state, state_file, entries, manifest_file, lister, yielded, run,
                clock, lastOp, ret, hist>>

\* get_xml whose status code is not looked at
DlGetXmlAnyStatus(resp) ==
    /\ call.pc = "get_xml"
    /\ requests' = Append(requests,
            Exchange("xml", call.api_path, 0, 0, Some(call.akn_uri), resp))
    /\ call' =
        IF resp.kind = "exception"
        THEN [call EXCEPT !.pc = "returned",
                          !.result.error = Some("Failed to fetch XML")]
        ELSE [call EXCEPT !.pc = "write_xml", !.links = resp.links]
    /\ UNCHANGED <<files, dirs>>
    /\ DlUnchanged

\* response = client.get_xml(api_path), up to open(xml_path, "wb")
DlGetXml(resp) ==
    /\ call.pc = "get_xml"
    /\ requests' = Append(requests,
            Exchange("xml", call.api_path, 0, 0, Some(call.akn_uri), resp))
    /\ call' =
        IF resp.kind = "exception"
        THEN [call EXCEPT !.pc = "returned",
                          !.result.error = Some("Failed to fetch XML")]
        ELSE IF resp.status_code # 200
        THEN [call EXCEPT !.pc = "returned",
                          !.result.error = Some("HTTP status fetching XML")]
        ELSE [call EXCEPT !.pc = "write_xml", !.links = resp.links]
    /\ UNCHANGED <<files, dirs>>
    /\ DlUnchanged

\* xml_path.write_bytes(xml_content): the file is opened and truncated
DlOpenXml ==
    /\ call.pc = "write_xml"
    /\ files' = WriteOpen(files, XmlPath(call.doc_dir))
    /\ call' = [call EXCEPT !.pc = "writing_xml"]
    /\ UNCHANGED <<dirs, requests>>
    /\ DlUnchanged

\* xml_path.write_bytes(xml_content) completes; result.files.append
DlWriteXml ==
    /\ call.pc = "writing_xml"
    /\ files' = WriteDone(files, XmlPath(call.doc_dir))
    /\ call' = Advance([call EXCEPT !.result.files = Append(@, XmlPath(call.doc_dir))],
                       AfterXml(call))
    /\ hist' = [hist EXCEPT !.fetched = @ \cup {call.doc_dir}]
    /\ UNCHANGED <<dirs, requests>>
    /\ UNCHANGED <<state, state_file, entries, manifest_file, lister, yielded, run,
                   clock, lastOp, ret>>

\* A best-effort companion: written, and added to result.files, only on a 200.
Fetched(resp) == resp.kind = "response" /\ resp.status_code = 200

\* a companion whose failure ends the call with an error message
companion_call_fatal(c, resp, write, next) ==
    IF Fetched(resp)
    THEN [c EXCEPT !.pc = write]
    ELSE [c EXCEPT !.pc = "returned", !.result.error = Some("companion failed")]

\* The answer to a companion request: a 200 leads to write_bytes, every
\* other status and every exception to the stage that follows.
companion_call(c, resp, write, next) ==
    IF Fetched(resp) THEN [c EXCEPT !.pc = write] ELSE Advance(c, next)

\* write_bytes has returned: result.files.append(str(path))
companion_written(c, path, next) ==
    Advance([c EXCEPT !.result.files = Append(@, path)], next)

\* if options.fetch_pdf: response = client.get_pdf(api_path + "/main.pdf")
DlPdf(resp) ==
    /\ call.pc = "pdf"
    /\ requests' = Append(requests,
            Exchange("pdf", call.api_path \o <<"main.pdf">>, 0, 0, Some(call.akn_uri), resp))
    /\ call' = companion_call(call, resp, "write_pdf", AfterPdf(call))
    /\ UNCHANGED <<files, dirs>>
    /\ DlUnchanged

\* pdf_path.write_bytes(response.content): the file is opened and truncated
DlOpenPdf ==
    /\ call.pc = "write_pdf"
    /\ files' = WriteOpen(files, call.doc_dir \o <<"main.pdf">>)
    /\ call' = [call EXCEPT !.pc = "writing_pdf"]
    /\ UNCHANGED <<dirs, requests>>
    /\ DlUnchanged

\* pdf_path.write_bytes(response.content) completes; result.files.append
DlWritePdf ==
    /\ call.pc = "writing_pdf"
    /\ files' = WriteDone(files, call.doc_dir \o <<"main.pdf">>)
    /\ call' = companion_written(call, call.doc_dir \o <<"main.pdf">>, AfterPdf(call))
    /\ UNCHANGED <<dirs, requests>>
    /\ DlUnchanged

\* if options.fetch_zip: response = client.get_zip(api_path + "/main.akn")
DlZip(resp) ==
    /\ call.pc = "zip"
    /\ requests' = Append(requests,
            Exchange("zip", call.api_path \o <<"main.akn">>, 0, 0, Some(call.akn_uri), resp))
    /\ call' = companion_call(call, resp, "write_zip", AfterZip(call))
    /\ UNCHANGED <<files, dirs>>
    /\ DlUnchanged

\* zip_path.write_bytes(response.content): the file is opened and truncated
DlOpenZip ==
    /\ call.pc = "write_zip"
    /\ files' = WriteOpen(files, call.doc_dir \o <<"main.zip">>)
    /\ call' = [call EXCEPT !.pc = "writing_zip"]
    /\ UNCHANGED <<dirs, requests>>
    /\ DlUnchanged

\* zip_path.write_bytes(response.content) completes; result.files.append
DlWriteZip ==
    /\ call.pc = "writing_zip"
    /\ files' = WriteDone(files, call.doc_dir \o <<"main.zip">>)
    /\ call' = companion_written(call, call.doc_dir \o <<"main.zip">>, AfterZip(call))
    /\ UNCHANGED <<dirs, requests>>
    /\ DlUnchanged

\* media_dir / Path(link).name
MediaPath(doc_dir, link) == doc_dir \o <<"media", link[Len(link)]>>

\* if media_links: media_dir.mkdir(exist_ok=True), before the first link
DlMediaDir ==
    /\ call.pc = "media_dir"
    /\ dirs' = dirs \cup {call.doc_dir \o <<"media">>}
    /\ call' = [call EXCEPT !.pc = "media"]
    /\ UNCHANGED <<files, requests>>
    /\ DlUnchanged

\* for link in media_links: response = client.get(api_path + "/" + link)
\* (a link is the list of its segments; the set is walked in any order)
DlMedia(link, resp) ==
    /\ call.pc = "media"
    /\ link \in call.links
    /\ requests' = Append(requests,
            Exchange("media", call.api_path \o link, 0, 0, Some(call.akn_uri), resp))
    /\ call' = companion_call([call EXCEPT !.links = @ \ {link}, !.link = link], resp,
                              "write_media",
                              IF call.links = {link} THEN "returned" ELSE "media")
    /\ UNCHANGED <<files, dirs>>
    /\ DlUnchanged

\* media_path.write_bytes(response.content): the file is opened and truncated
DlOpenMedia ==
    /\ call.pc = "write_media"
    /\ files' = WriteOpen(files, MediaPath(call.doc_dir, call.link))
    /\ call' = [call EXCEPT !.pc = "writing_media"]
    /\ UNCHANGED <<dirs, requests>>
    /\ DlUnchanged

\* media_path.write_bytes(response.content) completes; result.files.append
DlWriteMedia ==
    /\ call.pc = "writing_media"
    /\ files' = WriteDone(files, MediaPath(call.doc_dir, call.link))
    /\ call' = companion_written(call, MediaPath(call.doc_dir, call.link),
                                 IF call.links = {} THEN "returned" ELSE "media")
    /\ UNCHANGED <<dirs, requests>>
    /\ DlUnchanged

(***************************************************************************)
(* state.py: ManifestEntry and ManifestManager                             *)
(***************************************************************************)

\* ManifestEntry(akn_uri, status, timestamp, files, error) of a result
ManifestEntry(result) ==
    [akn_uri |-> result.akn_uri, status |-> result.status,
     timestamp |-> result.timestamp, files |-> result.files, error |-> result.error]

\* sum(1 for e in self.entries if e.status == status)
CountStatus(es, status) == Cardinality({i \in 1..Len(es) : es[i].status = status})

\* The dict ManifestManager._save dumps.
ManifestData(es, now) ==
    [updated_at |-> now,
     total_entries |-> Len(es),
     success_count |-> CountStatus(es, "success"),
     skipped_count |-> CountStatus(es, "skipped"),
     error_count |-> CountStatus(es, "error"),
     entries |-> es]

ManifestAbsent == [kind |-> "absent", data |-> ManifestData(<<>>, 0)]
ManifestTorn == [kind |-> "torn", data |-> ManifestData(<<>>, 0)]
ManifestJson(es, now) == [kind |-> "json", data |-> ManifestData(es, now)]

\* ManifestManager.__init__ and _load: the entries in memory afterwards
manifest_load(file) == IF file.kind = "json" THEN file.data.entries ELSE <<>>

\* ManifestManager.add, before its _save()
manifest_add(es, entry) == Append(es, entry)

\* A summary that files the dry-run entries under skipped.
summary_dry_run_as_skipped(es) ==
    [total |-> Len(es),
     success |-> CountStatus(es, "success"),
     skipped |-> CountStatus(es, "skipped") + CountStatus(es, "dry-run"),
     error |-> CountStatus(es, "error")]

\* ManifestManager.summary
summary(es) ==
    [total |-> Len(es),
     success |-> CountStatus(es, "success"),
     skipped |-> CountStatus(es, "skipped"),
     error |-> CountStatus(es, "error")]

(***************************************************************************)
(* cli.py: run_download                                                    *)
(***************************************************************************)

\* The arguments of a run that the model varies.
Args(types, limit, max_pages, force, dry_run, resume, do_reset) ==
    [types |-> types, limit |-> limit, max_pages |-> max_pages,
     pdf |-> FALSE, zip |-> FALSE, media |-> FALSE,
     force |-> force, dry_run |-> dry_run, resume |-> resume, reset |-> do_reset]

NoArgs == Args(<<>>, 10, None, FALSE, FALSE, FALSE, FALSE)

DOCUMENT_TYPES ==
    [act |-> <<"statute", "statute-consolidated", "statute-translated",
               "statute-aland", "statute-sami">>,
     judgment |-> <<"kko", "kho">>,
     doc |-> <<"government-proposal", "treaty", "treaty-consolidated",
               "authority-regulation">>]

\* doc_types and actual_category of a --types value
DocTypesOf(category) ==
    IF category = "authority-regulation" THEN <<"authority-regulation">>
    ELSE DOCUMENT_TYPES[category]

ActualCategory(category) ==
    IF category = "authority-regulation" THEN "doc" ELSE category

Min(a, b) == IF a < b THEN a ELSE b

RunIdle ==
    [pc |-> "idle", args |-> NoArgs, ci |-> 1, ti |-> 1, resume_page |-> 1,
     page |-> 0, item |-> NoItem, exit |-> None, n |-> 0]

\* The (category, document type) pair the two for loops are at.
CurCategory(r) == ActualCategory(r.args.types[r.ci])
CurDocType(r) == DocTypesOf(r.args.types[r.ci])[r.ti]

\* The loops move on to the next pair, or are over.
after_pair(r) ==
    IF r.ti < Len(DocTypesOf(r.args.types[r.ci]))
    THEN [r EXCEPT !.pc = "pair", !.ti = @ + 1]
    ELSE IF r.ci < Len(r.args.types)
    THEN [r EXCEPT !.pc = "pair", !.ci = @ + 1, !.ti = 1]
    ELSE [r EXCEPT !.pc = "summary"]

\* DownloadOptions(output_dir, fetch_pdf, ..., dry_run) of the arguments
download_opts(a) == DownloadOptions(a.pdf, a.zip, a.media, a.force, a.dry_run)

\* ListConfig(..., limit=min(args.limit, 10), max_pages=args.max_pages)
list_config(r) ==
    ListConfig(CurCategory(r), CurDocType(r), Min(r.args.limit, 10), r.args.max_pages)

RunUnchangedDisk == UNCHANGED <<files, dirs>>

\* run_download that loads the checkpoint whether or not --resume was given
RunStartAlwaysLoads(a) ==
    /\ run.pc \in {"idle", "exited"}
    /\ run' = [RunIdle EXCEPT !.args = a, !.n = run.n + 1,
                              !.pc = IF a.reset THEN "reset" ELSE "load"]
    /\ state' = DownloadState
    /\ entries' = manifest_load(manifest_file)
    /\ requests' = <<>>
    /\ lister' = ListerIdle
    /\ yielded' = <<>>
    /\ call' = CallIdle
    /\ lastOp' = NoOp
    /\ hist' = [hist EXCEPT !.marked = {}, !.remarked = {}, !.noResetLoad = TRUE,
                            !.loaded = Len(manifest_load(manifest_file))]
    /\ UNCHANGED <<state_file, manifest_file, clock, ret>>
    /\ RunUnchangedDisk

\* run_download(args) up to the handling of --reset: the managers are
\* constructed and the manifest is loaded.  The log of exchanges is the
\* log of this run.
RunStart(a) ==
    /\ run.pc \in {"idle", "exited"}
    /\ run' = [RunIdle EXCEPT !.args = a, !.n = run.n + 1,
                              !.pc = IF a.reset THEN "reset"
                                     ELSE IF a.resume THEN "load" ELSE "client"]
    /\ state' = DownloadState
    /\ entries' = manifest_load(manifest_file)
    /\ requests' = <<>>
    /\ lister' = ListerIdle
    /\ yielded' = <<>>
    /\ call' = CallIdle
    /\ lastOp' = NoOp
    /\ hist' = [hist EXCEPT !.marked = {}, !.remarked = {}, !.noResetLoad = TRUE,
                            !.loaded = Len(manifest_load(manifest_file))]
    /\ UNCHANGED <<state_file, manifest_file, clock, ret>>
    /\ RunUnchangedDisk

\* if args.reset: state_manager.reset()
RunReset ==
    /\ run.pc = "reset"
    /\ state' = reset(state, state_file)[1]
    /\ state_file' = reset(state, state_file)[2]
    /\ run' = [run EXCEPT !.pc = IF run.args.resume THEN "load" ELSE "client"]
    /\ hist' = [hist EXCEPT !.noResetLoad = FALSE, !.saved = None]
    /\ UNCHANGED <<entries, manifest_file, requests, lister, yielded, call, clock,
                   lastOp, ret>>
    /\ RunUnchangedDisk

\* if args.resume: state_manager.load()
RunLoad ==
    /\ run.pc = "load"
    /\ state' = load(state, state_file)[2]
    /\ run' = [run EXCEPT !.pc = "client"]
    /\ hist' = [hist EXCEPT !.noResetLoad = FALSE]
    /\ UNCHANGED <<state_file, entries, manifest_file, requests, lister, yielded,
                   call, clock, lastOp, ret>>
    /\ RunUnchangedDisk

\* client = FinlexClient(...), download_opts = DownloadOptions(...) and the
\* three log lines: the last statements before the try is entered
RunClient ==
    /\ run.pc = "client"
    /\ run' = [run EXCEPT !.pc = "pair"]
    /\ UNCHANGED <<state, state_file, entries, manifest_file, requests, lister,
                   yielded, call, clock, lastOp, ret, hist>>
    /\ RunUnchangedDisk

\* for doc_type in doc_types: the resume point, the list configuration and
\* state_manager.start_session(...) up to the opening of the file in save()
RunStartSession ==
    /\ run.pc = "pair"
    /\ run' = [run EXCEPT !.pc = "session_dump",
                          !.resume_page =
                              IF run.args.resume
                              THEN get_resume_page(state, CurCategory(run), CurDocType(run))
                              ELSE 1]
    /\ state' = save_stamp(start_session(state, CurCategory(run), CurDocType(run), clock),
                           clock)
    /\ state_file' = FileTorn
    /\ lister' = ListerIdle
    /\ UNCHANGED <<entries, manifest_file, requests, yielded, call, clock, lastOp,
                   ret, hist>>
    /\ RunUnchangedDisk

\* json.dump in a save() of the checkpoint completes
CheckpointDumped ==
    /\ state_file' \in save_dump(state)
    /\ hist' = [hist EXCEPT !.saved = Some(state)]
    /\ UNCHANGED <<state, entries, manifest_file, requests, clock, lastOp, ret>>
    /\ RunUnchangedDisk

\* start_session returns; page = 0; list_documents(client, list_config)
RunSessionDump ==
    /\ run.pc = "session_dump"
    /\ CheckpointDumped
    /\ run' = [run EXCEPT !.pc = "next", !.page = 0]
    /\ lister' = list_documents(list_config(run))
    /\ yielded' = <<>>
    /\ UNCHANGED call

\* the body of the for loop without the is_completed test
RunItemNoCheck ==
    /\ run.pc = "item"
    /\ run' = [run EXCEPT !.pc = "download", !.page = @ + 1]
    /\ call' = download_enter(run.item.akn_uri, download_opts(run.args), files, clock)
    /\ dirs' = dirs_after_enter(call', dirs)
    /\ hist' = [hist EXCEPT !.entry = Some(Entry)]
    /\ UNCHANGED <<state, state_file, entries, manifest_file, files, requests,
                   lister, yielded, clock, lastOp, ret>>

\* the body of the for loop with --force overriding the is_completed test
RunItemForceFirst ==
    /\ run.pc = "item"
    /\ IF is_completed(state, run.item.akn_uri) /\ ~run.args.force
       THEN /\ run' = [run EXCEPT !.pc = "next", !.page = @ + 1]
            /\ UNCHANGED <<call, dirs, hist>>
       ELSE /\ run' = [run EXCEPT !.pc = "download", !.page = @ + 1]
            /\ call' = download_enter(run.item.akn_uri, download_opts(run.args),
                                      files, clock)
            /\ dirs' = dirs_after_enter(call', dirs)
            /\ hist' = [hist EXCEPT !.entry = Some(Entry)]
    /\ UNCHANGED <<state, state_file, entries, manifest_file, files, requests,
                   lister, yielded, clock, lastOp, ret>>

\* the body of the for loop, up to the call of download_document
RunItem ==
    /\ run.pc = "item"
    /\ IF is_completed(state, run.item.akn_uri)
       THEN /\ run' = [run EXCEPT !.pc = "next", !.page = @ + 1]
            /\ UNCHANGED <<call, dirs, hist>>
       ELSE /\ run' = [run EXCEPT !.pc = "download", !.page = @ + 1]
            /\ call' = download_enter(run.item.akn_uri, download_opts(run.args),
                                      files, clock)
            /\ dirs' = dirs_after_enter(call', dirs)
            /\ hist' = [hist EXCEPT !.entry = Some(Entry)]
    /\ UNCHANGED <<state, state_file, entries, manifest_file, files, requests,
                   lister, yielded, clock, lastOp, ret>>

\* manifest_manager.add(manifest_entry), up to the opening of the file
RunManifestAdd ==
    /\ run.pc = "download"
    /\ call.pc = "returned"
    /\ entries' = manifest_add(entries, ManifestEntry(call.result))
    /\ manifest_file' = ManifestTorn
    /\ run' = [run EXCEPT !.pc = "manifest_dump"]
    /\ UNCHANGED <<state, state_file, requests, lister, yielded, call, clock,
                   lastOp, ret, hist>>
    /\ RunUnchangedDisk

\* RunManifestDump that goes on to mark_completed whatever the status
RunManifestDumpMarksAll ==
    /\ run.pc = "manifest_dump"
    /\ manifest_file' = ManifestJson(entries, clock)
    /\ run' = [run EXCEPT !.pc = "mark"]
    /\ UNCHANGED <<state, state_file, entries, requests, lister, yielded, call,
                   clock, lastOp, ret, hist>>
    /\ RunUnchangedDisk

\* json.dump in ManifestManager._save completes; if result.status in (...)
RunManifestDump ==
    /\ run.pc = "manifest_dump"
    /\ manifest_file' = ManifestJson(entries, clock)
    /\ run' = [run EXCEPT !.pc = IF call.result.status \in {"success", "skipped"}
                                 THEN "mark" ELSE "set_page"]
    /\ UNCHANGED <<state, state_file, entries, requests, lister, yielded, call,
                   clock, lastOp, ret, hist>>
    /\ RunUnchangedDisk

\* state_manager.mark_completed(item.akn_uri), up to the opening of the file
RunMark ==
    /\ run.pc = "mark"
    /\ state' = save_stamp(mark_completed(state, run.item.akn_uri), clock)
    /\ state_file' = FileTorn
    /\ run' = [run EXCEPT !.pc = "mark_dump"]
    /\ hist' = [hist EXCEPT !.marked = @ \cup {run.item.akn_uri},
                            !.remarked = IF run.item.akn_uri \in hist.marked
                                         THEN @ \cup {run.item.akn_uri} ELSE @]
    /\ UNCHANGED <<entries, manifest_file, requests, lister, yielded, call, clock,
                   lastOp, ret>>
    /\ RunUnchangedDisk

RunMarkDump ==
    /\ run.pc = "mark_dump"
    /\ CheckpointDumped
    /\ run' = [run EXCEPT !.pc = "set_page"]
    /\ UNCHANGED <<lister, yielded, call>>

\* state_manager.set_page(page), up to the opening of the file
RunSetPage ==
    /\ run.pc = "set_page"
    /\ state' = save_stamp(set_page(state, run.page), clock)
    /\ state_file' = FileTorn
    /\ run' = [run EXCEPT !.pc = "page_dump"]
    /\ hist' = [hist EXCEPT !.stored = IF run.page = 1 THEN @
                                        ELSE @ \cup {StoredPage(state, run.page)}]
    /\ UNCHANGED <<entries, manifest_file, requests, lister, yielded, call, clock,
                   lastOp, ret>>
    /\ RunUnchangedDisk

\* set_page returns and the for loop asks the generator for the next item
RunPageDump ==
    /\ run.pc = "page_dump"
    /\ CheckpointDumped
    /\ run' = [run EXCEPT !.pc = "next"]
    /\ call' = CallIdle
    /\ UNCHANGED <<lister, yielded>>

RunControlUnchanged ==
    UNCHANGED <<state, state_file, entries, manifest_file, requests, yielded, call,
                clock, lastOp, ret, hist>>

\* the generator has returned: the for loop over its items is over
RunPairDone ==
    /\ run.pc = "next"
    /\ lister.pc = "done"
    /\ run' = after_pair(run)
    /\ lister' = ListerIdle
    /\ RunControlUnchanged
    /\ RunUnchangedDisk

\* the transport raised in the generator: the exception is not caught by
\* except KeyboardInterrupt; finally closes the client and it propagates
RunListRaised ==
    /\ run.pc = "next"
    /\ lister.pc = "raised"
    /\ run' = [run EXCEPT !.pc = "exited", !.exit = Some("exception")]
    /\ lister' = ListerIdle
    /\ RunControlUnchanged
    /\ RunUnchangedDisk

\* download_document raised: the exception is not caught by except
\* KeyboardInterrupt; finally closes the client and it propagates
RunDownloadRaised ==
    /\ run.pc = "download"
    /\ call.pc = "raised"
    /\ run' = [run EXCEPT !.pc = "exited", !.exit = Some("exception")]
    /\ lister' = ListerIdle
    /\ call' = CallIdle
    /\ UNCHANGED <<state, state_file, entries, manifest_file, requests, yielded,
                   clock, lastOp, ret, hist>>
    /\ RunUnchangedDisk

\* An exit code that looks at the entries of this run only.
exit_code_this_run(es) ==
    IF \E i \in hist.loaded + 1 .. Len(es) : es[i].status = "error" THEN "1" ELSE "0"

\* return 0 if summary["error"] == 0 else 1
exit_code(es) == IF summary(es).error = 0 THEN "0" ELSE "1"

RunSummary ==
    /\ run.pc = "summary"
    /\ run' = [run EXCEPT !.pc = "exited", !.exit = Some(exit_code(entries))]
    /\ UNCHANGED lister
    /\ RunControlUnchanged
    /\ RunUnchangedDisk

\* The positions inside try: ... except KeyboardInterrupt.  The reset, the
\* load, the construction of the client and the summary are outside of it,
\* and so is an exception of the lister (l) or of download_document (c) on
\* its way out: the except clause has been passed, finally is closing the
\* client.
InTry(r, l, c) ==
    /\ r.pc \in {"pair", "session_dump", "next", "item", "download", "manifest_dump",
                "mark", "mark_dump", "set_page", "page_dump"}
    /\ ~(r.pc = "next" /\ l.pc = "raised")
    /\ ~(r.pc = "download" /\ c.pc = "raised")

\* KeyboardInterrupt: inside the try the run returns 130, outside of it the
\* interrupt propagates out of run_download.  Files stay as they are.
RunInterrupt ==
    /\ run.pc \notin {"idle", "exited"}
    /\ run' = [run EXCEPT !.pc = "exited",
                          !.exit = IF InTry(run, lister, call) THEN Some("130")
                                   ELSE Some("KeyboardInterrupt")]
    /\ lister' = ListerIdle
    /\ call' = CallIdle
    /\ UNCHANGED <<state, state_file, entries, manifest_file, requests, yielded,
                   clock, lastOp, ret, hist>>
    /\ RunUnchangedDisk

(***************************************************************************)
(* Bounds and inputs of the checkpoint specification                       *)
(***************************************************************************)
MaxPage == 2
MaxClock == 2

U1 == <<"", "akn", "fi", "act", "statute", "2024", "1", "fin@">>
U2 == <<"", "akn", "fi", "act", "statute", "2024", "2", "fin@">>
UBad == <<"">>
\* a path that misses the number segment, and a URL on which urlparse raises
UShort == <<"", "akn", "fi", "act", "statute", "2024", "fin@">>
UBracket == <<"http:", "", "[bad">>

StateUris == {U1, UBad}
StateCategories == {"act", "doc"}
StateTypes == {"statute", "treaty"}



\* The manifest next to the checkpoint: none yet, or one written by an
\* earlier run and loaded by ManifestManager.__init__.
StateManifestFiles ==
    {ManifestAbsent,
     ManifestJson(<<ManifestEntry([DownloadResult(U1, 1) EXCEPT !.status = "success"])>>, 1)}

\* StateManager(state_file) on a disk without a checkpoint file
InitState ==
    /\ state = DownloadState
    /\ state_file = FileAbsent
    /\ manifest_file \in StateManifestFiles
    /\ entries = manifest_load(manifest_file)
    /\ files = <<>>
    /\ dirs = {}
    /\ requests = <<>>
    /\ lister = ListerIdle
    /\ yielded = <<>>
    /\ run = RunIdle
    /\ call = CallIdle
    /\ clock = 1
    /\ lastOp = NoOp
    /\ ret = FALSE
    /\ hist = HistInit

RestUnchanged ==
    UNCHANGED <<entries, manifest_file, files, dirs, requests, lister, yielded,
                run, call>>

\* A whole save() of st: stamp, then open and dump.
Saved(st) ==
    /\ state' = save_stamp(st, clock)
    /\ state_file' \in save_dump(save_stamp(st, clock))

Save ==
    /\ Saved(state)
    /\ hist' = [hist EXCEPT !.saved = Some(state')]
    /\ lastOp' = Op("save")
    /\ UNCHANGED <<ret, clock>>
    /\ RestUnchanged

Load ==
    /\ state' = load(state, state_file)[2]
    /\ ret' = load(state, state_file)[1]
    /\ lastOp' = Op("load")
    /\ hist' = [hist EXCEPT !.noResetLoad = FALSE]
    /\ UNCHANGED <<state_file, clock>>
    /\ RestUnchanged

StartSession(category, document_type) ==
    /\ Saved(start_session(state, category, document_type, clock))
    /\ hist' = [hist EXCEPT !.saved = Some(state')]
    /\ lastOp' = [Op("start_session") EXCEPT !.category = category,
                                             !.document_type = document_type]
    /\ UNCHANGED <<ret, clock>>
    /\ RestUnchanged

MarkCompleted(uri) ==
    /\ Saved(mark_completed(state, uri))
    /\ hist' = [hist EXCEPT !.saved = Some(state'),
                            !.marked = @ \cup {uri},
                            !.remarked = IF uri \in hist.marked THEN @ \cup {uri} ELSE @]
    /\ lastOp' = [Op("mark_completed") EXCEPT !.uri = Some(uri)]
    /\ UNCHANGED <<ret, clock>>
    /\ RestUnchanged

IsCompleted(uri) ==
    /\ ret' = is_completed(state, uri)
    /\ lastOp' = [Op("is_completed") EXCEPT !.uri = Some(uri)]
    /\ UNCHANGED <<state, state_file, hist, clock>>
    /\ RestUnchanged

\* set_page without its save()
SetPageNoSave(page) ==
    /\ state' = set_page(state, page)
    /\ lastOp' = [Op("set_page") EXCEPT !.page = page]
    /\ UNCHANGED <<state_file, hist, ret, clock>>
    /\ RestUnchanged

SetPage(page) ==
    /\ Saved(set_page(state, page))
    /\ hist' = [hist EXCEPT !.saved = Some(state')]
    /\ lastOp' = [Op("set_page") EXCEPT !.page = page]
    /\ UNCHANGED <<ret, clock>>
    /\ RestUnchanged

GetResumePage(category, document_type) ==
    /\ ret' = get_resume_page(state, category, document_type)
    /\ lastOp' = [Op("get_resume_page") EXCEPT !.category = category,
                                               !.document_type = document_type]
    /\ UNCHANGED <<state, state_file, hist, clock>>
    /\ RestUnchanged

Reset ==
    /\ state' = reset(state, state_file)[1]
    /\ state_file' = reset(state, state_file)[2]
    /\ lastOp' = Op("reset")
    /\ hist' = [hist EXCEPT !.noResetLoad = FALSE, !.saved = None]
    /\ UNCHANGED <<ret, clock>>
    /\ RestUnchanged

\* A later process constructs a StateManager on the same file.
NewStateManager ==
    /\ state' = DownloadState
    /\ lastOp' = Op("new")
    /\ hist' = [hist EXCEPT !.marked = {}, !.remarked = {}, !.noResetLoad = TRUE]
    /\ UNCHANGED <<state_file, ret, clock>>
    /\ RestUnchanged

Tick ==
    /\ clock < MaxClock
    /\ clock' = clock + 1
    /\ UNCHANGED <<state, state_file, lastOp, ret, hist>>
    /\ RestUnchanged

\* The environment: the checkpoint file is deleted, or left empty or partial
\* by a write that was cut short (another process, the user, a full disk).
LoseFile ==
    /\ state_file.kind = "json"
    /\ state_file' \in {FileAbsent, FileTorn}
    /\ lastOp' = Op("lose_file")
    /\ hist' = [hist EXCEPT !.saved = None]
    /\ UNCHANGED <<state, ret, clock>>
    /\ RestUnchanged

NextState ==
    \/ Save
    \/ Load
    \/ \E c \in StateCategories, t \in StateTypes : StartSession(c, t)
    \/ \E u \in StateUris : MarkCompleted(u)
    \/ \E u \in StateUris : IsCompleted(u)
    \/ \E n \in 1..MaxPage : SetPage(n)
    \/ \E c \in StateCategories, t \in StateTypes : GetResumePage(c, t)
    \/ Reset
    \/ NewStateManager
    \/ LoseFile
    \/ Tick

SpecState == InitState /\ [][NextState]_vars


(***************************************************************************)
(* Claims on the checkpoint store, checked under SpecState                 *)
(***************************************************************************)

\* C4: as long as neither reset nor load was called on the store,
\* is_completed(u) is true exactly for the uris mark_completed was called
\* on, and a mark_completed on a uri already present leaves completed_uris
\* as it was.
C4_MarkedExactly ==
    [][/\ hist'.noResetLoad =>
            \A u \in StateUris : is_completed(state', u) <=> u \in hist'.marked
       /\ (lastOp'.op = "mark_completed" /\ lastOp'.uri[1] \in state.completed_uris) =>
            state'.completed_uris = state.completed_uris]_vars

\* C4 witness: U1 was marked twice, UBad never, and no reset or load happened.
C4_Witness ==
    /\ hist.noResetLoad
    /\ U1 \in hist.remarked
    /\ UBad \notin hist.marked
    /\ is_completed(state, U1)
    /\ ~is_completed(state, UBad)

\* The five fields C5 names.
SameCheckpoint(a, b) ==
    /\ a.current_category = b.current_category
    /\ a.current_document_type = b.current_document_type
    /\ a.current_page = b.current_page
    /\ a.last_uri = b.last_uri
    /\ a.completed_uris = b.completed_uris

\* C5: a load() of a file written by save() returns true and yields the
\* active pair, current_page, last_uri and completed_uris that were saved.
C5_SaveLoadRoundTrip ==
    (lastOp.op = "load" /\ ~IsNone(hist.saved)) =>
        /\ ret = TRUE
        /\ SameCheckpoint(state, hist.saved[1])

\* C5 witness: a StateManager on which nothing was marked has loaded a
\* checkpoint with two completed uris, an active pair and page 2.
C5_Witness ==
    /\ lastOp.op = "load"
    /\ ret = TRUE
    /\ hist.marked = {}
    /\ state.completed_uris = {U1, UBad}
    /\ state.current_page = 2
    /\ state.current_category = Some("act")
    /\ state.last_uri = Some(UBad)

\* C6: get_resume_page(c, t) returns current_page when both the stored
\* category and the stored document type equal the arguments, and 1 in
\* every other case.
C6_ResumePage ==
    lastOp.op = "get_resume_page" =>
        IF /\ state.current_category = Some(lastOp.category)
           /\ state.current_document_type = Some(lastOp.document_type)
        THEN ret = state.current_page
        ELSE ret = 1

\* C6 witness: the stored category matches, the document type does not, the
\* stored page is 2 and get_resume_page returned 1.
C6_Witness ==
    /\ lastOp.op = "get_resume_page"
    /\ state.current_category = Some(lastOp.category)
    /\ state.current_document_type = Some("statute")
    /\ lastOp.document_type = "treaty"
    /\ state.current_page = 2
    /\ ret = 1

\* C8: when start_session, mark_completed or set_page has returned, the
\* checkpoint file holds the in-memory checkpoint.
C8_PersistedOnReturn ==
    lastOp.op \in {"start_session", "mark_completed", "set_page"} =>
        /\ state_file.kind = "json"
        /\ from_dict(state_file.data) = state

\* C8 witness: set_page(2) has returned on a checkpoint with a completed uri.
C8_Witness ==
    /\ lastOp.op = "set_page"
    /\ lastOp.page = 2
    /\ state.current_page = 2
    /\ state.completed_uris # {}
    /\ state_file.kind = "json"
    /\ state_file.data.current_page = 2


(***************************************************************************)
(* The lister on its own: for item in list_documents(client, config): pass *)
(***************************************************************************)
MaxListPage == 4

ListLimits == {3, 10, 50}
ListMaxPagesArgs == {None, Some(0), Some(2), Some(3)}
PageSizes == {0, 3, 10}

\* The JSON array of the n items of a page (limit items to a full page).
PageJson(page, limit, n) ==
    [i \in 1..n |->
        [akn_uri |-> Some(<<"", "akn", "fi", "act", "statute", "2024",
                            ToString((page - 1) * limit + i), "fin@">>),
         status |-> Some("NEW")]]

\* What the transport can answer to the request for a page: pages stay
\* non-empty only below MaxListPage.
ListResponses(page, limit) ==
    {Response(200, Some(PageJson(page, limit, n)), {}) :
        n \in IF page < MaxListPage THEN PageSizes ELSE {0}}
    \cup {Response(500, None, {}), Response(200, None, {}), TransportError}

InitList ==
    /\ state = DownloadState
    /\ state_file = FileAbsent
    /\ entries = <<>>
    /\ manifest_file = ManifestAbsent
    /\ files = <<>>
    /\ dirs = {}
    /\ requests = <<>>
    /\ \E limit \in ListLimits, m \in ListMaxPagesArgs :
            lister = list_documents(ListConfig("act", "statute", limit, m))
    /\ yielded = <<>>
    /\ run = [RunIdle EXCEPT !.pc = "next"]
    /\ call = CallIdle
    /\ clock = 1
    /\ lastOp = NoOp
    /\ ret = FALSE
    /\ hist = HistInit

\* the body of the consumer's loop: pass
Consume ==
    /\ run.pc = "item"
    /\ run' = [run EXCEPT !.pc = "next"]
    /\ UNCHANGED <<lister, requests, yielded>>
    /\ ListUnchanged

NextList ==
    \/ ListMaxPages
    \/ \E resp \in ListResponses(lister.page, lister.config.limit) : ListRequest(resp)
    \/ ListYield
    \/ ListPageEnd
    \/ Consume

SpecList == InitList /\ [][NextList]_vars

(***************************************************************************)
(* Claims on the lister, checked under SpecList                            *)
(***************************************************************************)

ListExchanges == SelectSeq(requests, LAMBDA e : e.kind = "list")

\* The items of the pages answered so far, in page order.
RECURSIVE ItemsOf(_)
ItemsOf(log) ==
    IF log = <<>> THEN <<>>
    ELSE LET r == Head(log).resp IN
         (IF r.kind = "response" /\ r.status_code = 200 /\ ~IsNone(r.json)
          THEN [i \in 1..Len(r.json[1]) |-> ListItem(r.json[1][i])]
          ELSE <<>>) \o ItemsOf(Tail(log))

IsShortPage(e) ==
    /\ e.resp.kind = "response" /\ e.resp.status_code = 200 /\ ~IsNone(e.resp.json)
    /\ Len(e.resp.json[1]) < e.limit

PageSizesSeen == [i \in 1..Len(requests) |->
                    IF IsNone(requests[i].resp.json) THEN -1
                    ELSE Len(requests[i].resp.json[1])]

\* C10: the k-th list request asks for page k; the items yielded are a
\* prefix of the items of the pages answered, in page order, and all of
\* them once the generator has returned; no request follows a page with
\* fewer than limit items; and with limit 10 and pages of 10, 10 and 3
\* items the generator returns after 23 items and 3 requests.
C10_Pagination ==
    /\ \A k \in 1..Len(requests) : requests[k].kind = "list" /\ requests[k].page = k
    /\ Len(yielded) <= Len(ItemsOf(requests))
    /\ yielded = SubSeq(ItemsOf(requests), 1, Len(yielded))
    /\ (lister.pc = "done" /\ run.pc = "next") => yielded = ItemsOf(requests)
    /\ \A k \in 1..Len(requests) : IsShortPage(requests[k]) => k = Len(requests)
    /\ (lister.config.limit = 10 /\ PageSizesSeen = <<10, 10, 3>>
        /\ Len(yielded) = 23 /\ run.pc = "next" /\ lister.pc # "yield") =>
            /\ lister.pc = "done"
            /\ lister.terminal = "short-page"
            /\ ~ENABLED NextList

\* C10 witness: limit 10, pages of 10, 10 and 3 items, 23 items yielded over
\* 3 requests, and the generator has returned.
C10_Witness ==
    /\ lister.config.limit = 10
    /\ PageSizesSeen = <<10, 10, 3>>
    /\ Len(yielded) = 23
    /\ Len(requests) = 3
    /\ lister.pc = "done"


(***************************************************************************)
(* The fetcher on its own: download_document called on a disk that earlier *)
(* calls may have written to, and called again with the same arguments     *)
(***************************************************************************)

\* U1 with its last segment percent-encoded: the same document
U1Enc == <<"", "akn", "fi", "act", "statute", "2024", "1", "fin%40">>

FetchUris == {U1, U1Enc, UBad, UShort, UBracket}

Link1 == <<"media", "kuva.gif">>

FetchOptions ==
    {DownloadOptions(p, z, m, f, d) : p, z, m, f, d \in BOOLEAN}

XmlResponses ==
    {Response(200, None, {}), Response(200, None, {Link1}),
     Response(404, None, {}), Response(500, None, {}), TransportError}

CompanionResponses ==
    {Response(200, None, {}), Response(404, None, {}), Response(500, None, {}),
     TransportError}

U1Dir == folder_path(parse_akn_uri(U1)[1])

\* main.xml of U1 as an earlier call, completed or interrupted, has left it
FetchDisks == {<<>>, WriteDone(<<>>, XmlPath(U1Dir)), WriteOpen(<<>>, XmlPath(U1Dir))}

InitFetch ==
    /\ state = DownloadState
    /\ state_file = FileAbsent
    /\ entries = <<>>
    /\ manifest_file = ManifestAbsent
    /\ files \in FetchDisks
    /\ dirs = IF files = <<>> THEN {} ELSE {U1Dir}
    /\ requests = <<>>
    /\ lister = ListerIdle
    /\ yielded = <<>>
    /\ run = RunIdle
    /\ call = CallIdle
    /\ clock = 1
    /\ lastOp = NoOp
    /\ ret = FALSE
    /\ hist = HistInit

FetchUnchanged ==
    UNCHANGED <<state, state_file, entries, manifest_file, lister, yielded, run,
                clock, lastOp, ret>>

\* download_document(client, akn_uri, options)
FetchCall(akn_uri, options) ==
    /\ call.pc = "idle"
    /\ call' = download_enter(akn_uri, options, files, clock)
    /\ dirs' = dirs_after_enter(call', dirs)
    /\ hist' = [hist EXCEPT !.entry = Some(Entry)]
    /\ UNCHANGED <<files, requests>>
    /\ FetchUnchanged

\* download_document once more, with the arguments of the call that returned
FetchAgain ==
    /\ call.pc = "returned"
    /\ IsNone(hist.prev)
    /\ call' = download_enter(call.akn_uri, call.options, files, clock)
    /\ dirs' = dirs_after_enter(call', dirs)
    /\ hist' = [hist EXCEPT !.entry = Some(Entry),
                            !.prev = Some([call |-> call, entry |-> hist.entry[1],
                                           nreq |-> Len(requests)])]
    /\ UNCHANGED <<files, requests>>
    /\ FetchUnchanged

NextFetch ==
    \/ \E u \in FetchUris, o \in FetchOptions : FetchCall(u, o)
    \/ FetchAgain
    \/ \E resp \in XmlResponses : DlGetXml(resp)
    \/ DlOpenXml
    \/ DlWriteXml
    \/ \E resp \in CompanionResponses : DlPdf(resp)
    \/ DlOpenPdf
    \/ DlWritePdf
    \/ \E resp \in CompanionResponses : DlZip(resp)
    \/ DlOpenZip
    \/ DlWriteZip
    \/ DlMediaDir
    \/ \E link \in call.links, resp \in CompanionResponses : DlMedia(link, resp)
    \/ DlOpenMedia
    \/ DlWriteMedia

SpecFetch == InitFetch /\ [][NextFetch]_vars


(***************************************************************************)
(* Claims on the fetcher, checked under SpecFetch                          *)
(***************************************************************************)

\* main.xml of the document the uri names, for a parseable uri
XmlPathOf(akn_uri) == XmlPath(folder_path(parse_akn_uri(akn_uri)[1]))

\* C1: a call for a parseable uri whose main.xml exists when the call is
\* entered, with force false, has returned at once with status skipped and
\* files = [xml_path], has asked the transport for nothing and has left the
\* files and directories on disk as they were.
C1_ExistingIsSkipped ==
    (/\ call.pc # "idle"
     /\ ~IsNone(parse_akn_uri(call.akn_uri))
     /\ Exists(hist.entry[1].files, XmlPathOf(call.akn_uri))
     /\ ~call.options.force) =>
        /\ call.pc = "returned"
        /\ call.result.status = "skipped"
        /\ call.result.files = <<XmlPathOf(call.akn_uri)>>
        /\ Len(requests) = hist.entry[1].nreq
        /\ files = hist.entry[1].files
        /\ dirs = hist.entry[1].dirs

\* C1 witness: a first call with every companion requested and dry_run set,
\* for the percent-encoded uri of a document whose main.xml exists, was
\* skipped.
C1_Witness ==
    /\ call.pc = "returned"
    /\ IsNone(hist.prev)
    /\ call.akn_uri = U1Enc
    /\ call.options = DownloadOptions(TRUE, TRUE, TRUE, FALSE, TRUE)
    /\ Exists(hist.entry[1].files, XmlPathOf(call.akn_uri))
    /\ call.result.status = "skipped"
    /\ requests = <<>>

\* The requests for the primary document among the exchanges from..to.
XmlRequests(from, to) == {i \in from..to : requests[i].kind = "xml"}

\* C2: when download_document was called twice in a row with the same
\* arguments, force false, and the primary request of the first call
\* returned 200, the first call reported success, the second skipped, and
\* one request for the primary document was made in all.
C2_SecondCallSkips ==
    (/\ ~IsNone(hist.prev)
     /\ call.pc = "returned"
     /\ ~call.options.force
     /\ \E i \in XmlRequests(hist.prev[1].entry.nreq + 1, hist.prev[1].nreq) :
            Fetched(requests[i].resp)) =>
        /\ hist.prev[1].call.result.status = "success"
        /\ call.result.status = "skipped"
        /\ Cardinality(XmlRequests(1, Len(requests))) = 1

\* C2 witness: the second of two calls with PDF and media requested has
\* returned; the first fetched the XML with a 200 and its PDF with a 500.
C2_Witness ==
    /\ ~IsNone(hist.prev)
    /\ call.pc = "returned"
    /\ call.options = DownloadOptions(TRUE, FALSE, TRUE, FALSE, FALSE)
    /\ hist.prev[1].call.akn_uri = call.akn_uri
    /\ hist.prev[1].call.options = call.options
    /\ Len(requests) >= 2
    /\ requests[1].kind = "xml" /\ Fetched(requests[1].resp)
    /\ requests[2].kind = "pdf" /\ requests[2].resp.status_code = 500
    /\ call.result.status = "skipped"


(***************************************************************************)
(* Runs of run_download, one after the other on the same output directory, *)
(* each of which the user may interrupt at any step                        *)
(***************************************************************************)
MaxRuns == 2
MaxServed == 2

RunUris == {U1, U2, UBad, UBracket}
RunLimit == 2

\* (force, dry_run, resume, reset) of the runs; one run asks for the PDF
RunFlags ==
    {<<FALSE, FALSE, FALSE, FALSE>>, <<FALSE, FALSE, TRUE, FALSE>>,
     <<TRUE, FALSE, TRUE, FALSE>>, <<FALSE, FALSE, FALSE, TRUE>>,
     <<FALSE, TRUE, FALSE, FALSE>>}

RunArgs ==
    {Args(<<"authority-regulation">>, RunLimit, None, f[1], f[2], f[3], f[4]) : f \in RunFlags}
    \cup {Args(<<"judgment">>, RunLimit, None, FALSE, FALSE, FALSE, FALSE),
          [Args(<<"authority-regulation">>, RunLimit, Some(1), FALSE, FALSE, FALSE, FALSE)
                EXCEPT !.pdf = TRUE]}

\* The items the list endpoint has served to this run's client.
Served == Len(ItemsOf(requests))

JsonItem(uri) == [akn_uri |-> Some(uri), status |-> Some("NEW")]

\* The JSON arrays of at most n items that the endpoint serves
Bodies(n) ==
    {b \in {<<>>, <<JsonItem(U1)>>, <<JsonItem(U2)>>, <<JsonItem(UBad)>>,
            <<JsonItem(U1), JsonItem(U2)>>, <<JsonItem(U1), JsonItem(U1)>>,
            <<JsonItem(U1), JsonItem(UBad)>>, <<JsonItem(UBracket)>>} : Len(b) <= n}

\* What the transport can answer to a list request of a run: the endpoint
\* serves at most MaxServed items to a run.
RunListResponses ==
    {Response(200, Some(b), {}) : b \in Bodies(Min(lister.config.limit, MaxServed - Served))}
    \cup {Response(500, None, {}), Response(200, None, {}), TransportError}

RunXmlResponses == {Response(200, None, {}), Response(500, None, {}), TransportError}
RunPdfResponses == {Response(200, None, {}), Response(404, None, {}), TransportError}

InitRun ==
    /\ state = DownloadState
    /\ state_file = FileAbsent
    /\ entries = <<>>
    /\ manifest_file = ManifestAbsent
    /\ files = <<>>
    /\ dirs = {}
    /\ requests = <<>>
    /\ lister = ListerIdle
    /\ yielded = <<>>
    /\ run = RunIdle
    /\ call = CallIdle
    /\ clock = 1
    /\ lastOp = NoOp
    /\ ret = FALSE
    /\ hist = HistInit

NextRun ==
    \/ \E a \in RunArgs : run.n < MaxRuns /\ RunStart(a)
    \/ RunReset
    \/ RunLoad
    \/ RunClient
    \/ RunStartSession
    \/ RunSessionDump
    \/ ListMaxPages
    \/ \E resp \in RunListResponses : ListRequest(resp)
    \/ ListYield
    \/ ListPageEnd
    \/ RunItem
    \/ \E resp \in RunXmlResponses : DlGetXml(resp)
    \/ DlOpenXml
    \/ DlWriteXml
    \/ \E resp \in RunPdfResponses : DlPdf(resp)
    \/ DlOpenPdf
    \/ DlWritePdf
    \/ RunManifestAdd
    \/ RunManifestDump
    \/ RunMark
    \/ RunMarkDump
    \/ RunSetPage
    \/ RunPageDump
    \/ RunPairDone
    \/ RunListRaised
    \/ RunDownloadRaised
    \/ RunSummary
    \/ RunInterrupt

SpecRun == InitRun /\ [][NextRun]_vars

(***************************************************************************)
(* Claims about runs                                                       *)
(***************************************************************************)

InRun == run.pc \notin {"idle", "exited"}

\* C3: in a run, a listed uri for which is_completed is true is passed
\* over: the step that examines it sends no request, adds no manifest entry,
\* writes nothing, and goes on to the next item; and whenever a run sends a
\* document request or adds a manifest entry, the uri it is for is not one
\* the checkpoint holds as completed.
C3_CompletedIsPassedOver ==
    [][/\ (run.pc = "item" /\ is_completed(state, run.item.akn_uri)) =>
            /\ requests' = requests
            /\ entries' = entries
            /\ manifest_file' = manifest_file
            /\ files' = files
            /\ call' = CallIdle
            /\ run'.pc \in {"next", "exited"}
       /\ (InRun /\ Len(requests') > Len(requests)
                 /\ requests'[Len(requests')].kind # "list") =>
            ~is_completed(state, requests'[Len(requests')].uri[1])
       /\ (InRun /\ Len(entries') > Len(entries)) =>
            ~is_completed(state, entries'[Len(entries')].akn_uri)]_vars

\* C3 witness: a second run, resumed, has been listed one uri that the
\* loaded checkpoint holds as completed and is asking for the next item
\* having sent list requests only and added no manifest entry.
C3_Witness ==
    /\ run.n = 2
    /\ run.args.resume
    /\ run.pc = "next"
    /\ run.page = 1
    /\ Len(yielded) = 1
    /\ is_completed(state, yielded[1].akn_uri)
    /\ hist.marked = {}
    /\ \A i \in 1..Len(requests) : requests[i].kind = "list"
    /\ entries = manifest_load(manifest_file)
    /\ Len(entries) = 1

\* C7: inside a run, once the optional reset and load are over, no step
\* removes an element of completed_uris.
C7_CompletedOnlyGrows ==
    [][(InRun /\ run.pc \notin {"reset", "load"}) =>
            state.completed_uris \subseteq state'.completed_uris]_vars

\* C7 witness: a resumed run has loaded a checkpoint with one completed uri,
\* has started its session, marked a second uri and set the page.
C7_Witness ==
    /\ run.n = 2
    /\ run.args.resume
    /\ run.pc = "next"
    /\ hist.marked = {U2}
    /\ state.completed_uris = {U1, U2}
    /\ state.current_page = 1
    /\ state_file.kind = "json"
    /\ from_dict(state_file.data) = state

\* C9: every uri of the persisted checkpoint's completed_uris is one whose
\* main.xml was written in full from a 200 response and is on disk in full.
C9_PersistedCompletedWasFetched ==
    state_file.kind = "json" =>
        \A u \in from_dict(state_file.data).completed_uris :
            /\ ~IsNone(parse_akn_uri(u))
            /\ folder_path(parse_akn_uri(u)[1]) \in hist.fetched
            /\ Exists(files, XmlPathOf(u))
            /\ files[XmlPathOf(u)] = "full"

(***************************************************************************)
(* Further claims on the lister, checked under SpecList                    *)
(***************************************************************************)

\* The terminal state the code's log message names for a page that ends
\* the listing without items.
FailureOf(resp) ==
    IF resp.kind # "response" THEN "none"
    ELSE IF resp.status_code # 200 THEN "request-failed"
    ELSE IF IsNone(resp.json) THEN "bad-json"
    ELSE IF resp.json[1] = <<>> THEN "end-of-data"
    ELSE "none"

\* C11: a list page answered with a non-200 status, with a body that is not
\* JSON, or with an empty collection is the last request: the generator has
\* returned (it has not raised), every item of the pages before it has been
\* yielded and nothing else.
C11_FailingPageStops ==
    \A k \in 1..Len(requests) :
        FailureOf(requests[k].resp) # "none" =>
            /\ k = Len(requests)
            /\ lister.pc = "done"
            /\ lister.terminal = FailureOf(requests[k].resp)
            /\ yielded = ItemsOf(SubSeq(requests, 1, k - 1))

\* C11 witness: limit 3, two full pages were yielded, the third page's body
\* was not JSON, and the generator has returned after 6 items.
C11_Witness ==
    /\ lister.config.limit = 3
    /\ Len(requests) = 3
    /\ FailureOf(requests[3].resp) = "bad-json"
    /\ Len(yielded) = 6
    /\ lister.pc = "done"
    /\ run.pc = "next"

\* C12: when max_pages is set to m, no request asks for a page beyond m,
\* so at most m list requests are sent.
C12_AtMostMaxPages ==
    ~IsNone(lister.config.max_pages) =>
        /\ Len(ListExchanges) <= lister.config.max_pages[1]
        /\ \A k \in 1..Len(requests) : requests[k].page <= lister.config.max_pages[1]

\* C13: every list request carries a limit of at most 10.
C13_LimitAtMostTen ==
    \A k \in 1..Len(requests) : requests[k].kind = "list" => requests[k].limit <= 10

(***************************************************************************)
(* Further claims on download_document inside runs, checked under SpecRun  *)
(***************************************************************************)

\* The call in progress has sent its request for the primary document and
\* the answer was not a 200 response.
XmlFailed ==
    /\ call.pc # "idle"
    /\ Len(requests) > hist.entry[1].nreq
    /\ requests[hist.entry[1].nreq + 1].kind = "xml"
    /\ ~Fetched(requests[hist.entry[1].nreq + 1].resp)

\* C14: when the request for the primary document is answered with a
\* non-200 status or the transport raises, download_document has returned
\* (not raised) with status error, an error message and no files, the files
\* on disk are as they were when the call was entered, and no further
\* request was sent; the run records the error in the manifest, does not mark
\* the uri completed, sets the page and asks the lister for the next item.
C14_PrimaryFailureIsLocal ==
    [][/\ XmlFailed' =>
            /\ call'.pc = "returned"
            /\ call'.result.status = "error"
            /\ ~IsNone(call'.result.error)
            /\ call'.result.files = <<>>
            /\ files' = hist'.entry[1].files
            /\ Len(requests') = hist'.entry[1].nreq + 1
            /\ run'.pc \in {"download", "manifest_dump", "set_page", "page_dump"}
            /\ ~is_completed(state', run'.item.akn_uri)
            /\ run'.pc # "download" =>
                    /\ entries'[Len(entries')] = ManifestEntry(call'.result)
                    /\ entries'[Len(entries')].status = "error"
       /\ (XmlFailed /\ run'.pc # "exited") =>
            /\ run.pc = "download" => run'.pc = "manifest_dump"
            /\ run.pc = "manifest_dump" => run'.pc = "set_page"
            /\ run.pc = "set_page" => run'.pc = "page_dump"
            /\ run.pc = "page_dump" =>
                    (run'.pc = "next" /\ lister' = lister /\ lister.pc # "idle")]_vars

\* C14 witness: in a run that asks for PDFs, the first uri's primary request
\* got a 500 and the second uri's a 200: the manifest holds an error and a
\* success, only the second uri is completed, and the only PDF request is
\* the second uri's.
C14_Witness ==
    /\ run.n = 1
    /\ run.args.pdf
    /\ run.pc = "next"
    /\ Len(entries) = 2
    /\ entries[1].status = "error" /\ entries[1].akn_uri = U1
    /\ entries[1].files = <<>> /\ ~IsNone(entries[1].error)
    /\ entries[2].status = "success" /\ entries[2].akn_uri = U2
    /\ state.completed_uris = {U2}
    /\ [i \in 1..Len(requests) |-> requests[i].kind] = <<"list", "xml", "xml", "pdf">>
    /\ requests[2].resp.status_code = 500
    /\ ~Exists(files, XmlPathOf(U1))

(***************************************************************************)
(* Further claims on download_document, checked under SpecFetch            *)
(***************************************************************************)

\* The exchanges of the call in progress, the first of them at index First.
First == hist.entry[1].nreq + 1

\* The file a companion exchange of the call in progress is written to.
CompanionPath(e) ==
    IF e.kind = "pdf" THEN call.doc_dir \o <<"main.pdf">>
    ELSE IF e.kind = "zip" THEN call.doc_dir \o <<"main.zip">>
    ELSE MediaPath(call.doc_dir, SubSeq(e.path, Len(call.api_path) + 1, Len(e.path)))

\* The files of the companions fetched with a 200, in request order.
RECURSIVE FetchedCompanions(_)
FetchedCompanions(log) ==
    IF log = <<>> THEN <<>>
    ELSE (IF Fetched(Head(log).resp) THEN <<CompanionPath(Head(log))>> ELSE <<>>)
         \o FetchedCompanions(Tail(log))

\* The call in progress has fetched the primary document with a 200 and
\* has written it.
PrimaryWritten ==
    /\ call.pc \in {"pdf", "write_pdf", "writing_pdf", "zip", "write_zip", "writing_zip",
                   "media_dir", "media", "write_media", "writing_media", "returned"}
    /\ Len(requests) >= First
    /\ requests[First].kind = "xml"
    /\ Fetched(requests[First].resp)

\* write_bytes of the companion answered last has not returned yet.
CompanionWriting ==
    call.pc \in {"write_pdf", "writing_pdf", "write_zip", "writing_zip",
                 "write_media", "writing_media"}

\* C15: once the primary document was fetched with a 200 and written, no
\* outcome of a PDF, ZIP or media request sets an error message or ends the
\* call other than with status success; result.files is main.xml followed
\* by the files of exactly the companions answered with a 200, and those
\* files are on disk.
C15_CompanionsNeverDowngrade ==
    PrimaryWritten =>
        /\ IsNone(call.result.error)
        /\ call.pc = "returned" => call.result.status = "success"
        /\ call.result.status \in {"success", "error"}
        /\ call.result.files =
              <<XmlPath(call.doc_dir)>>
              \o FetchedCompanions(SubSeq(requests, First + 1,
                                          Len(requests) - (IF CompanionWriting THEN 1 ELSE 0)))
        /\ \A i \in 1..Len(call.result.files) :
              /\ Exists(files, call.result.files[i])
              /\ files[call.result.files[i]] = "full"
        /\ \A i \in (First + 1)..Len(requests) :
              (~Fetched(requests[i].resp)
               /\ ~Exists(hist.entry[1].files, CompanionPath(requests[i]))) =>
                    ~Exists(files, CompanionPath(requests[i]))

\* C15 witness: a call with PDF, ZIP and media requested has returned
\* success after the PDF got a 200, the ZIP a transport exception and the
\* media link a 500.
C15_Witness ==
    /\ PrimaryWritten
    /\ call.pc = "returned"
    /\ call.result.status = "success"
    /\ [i \in 1..Len(requests) |-> requests[i].kind] = <<"xml", "pdf", "zip", "media">>
    /\ Fetched(requests[2].resp)
    /\ requests[3].resp.kind = "exception"
    /\ requests[4].resp.status_code = 500
    /\ Len(call.result.files) = 2

\* C16: a call with dry_run true has returned at once, has sent no request
\* and has left the files and directories as they were; for a parseable uri
\* its status is skipped when main.xml existed and force is false, and
\* dry-run otherwise.
C16_DryRunTouchesNothing ==
    (call.pc # "idle" /\ call.options.dry_run) =>
        /\ call.pc = IF parse_akn_uri_raises(call.akn_uri) THEN "raised" ELSE "returned"
        /\ Len(requests) = hist.entry[1].nreq
        /\ files = hist.entry[1].files
        /\ dirs = hist.entry[1].dirs
        /\ ~IsNone(parse_akn_uri(call.akn_uri)) =>
              /\ call.result.status =
                    IF Exists(files, XmlPathOf(call.akn_uri)) /\ ~call.options.force
                    THEN "skipped" ELSE "dry-run"
              /\ IsNone(call.result.error)
              /\ call.result.files =
                    IF call.result.status = "skipped"
                    THEN <<XmlPathOf(call.akn_uri)>> ELSE <<>>

\* C16 witness: a dry run with force and all companions requested, for a
\* document whose main.xml exists, has returned dry-run; and nothing is on
\* disk but that file.
C16_Witness ==
    /\ call.pc = "returned"
    /\ call.options = DownloadOptions(TRUE, TRUE, TRUE, TRUE, TRUE)
    /\ call.akn_uri = U1
    /\ Exists(files, XmlPathOf(U1))
    /\ call.result.status = "dry-run"
    /\ requests = <<>>
    /\ DOMAIN files = {XmlPathOf(U1)}

\* C17: for a uri that matches neither path grammar, parse_akn_uri does
\* not raise, and download_document has returned status error with an error
\* message and no files, has sent no request and has left the files and
\* directories as they were.
C17_UnparseableIsError ==
    (call.pc # "idle" /\ IsNone(parse_akn_uri(call.akn_uri))) =>
        /\ ~parse_akn_uri_raises(call.akn_uri)
        /\ call.pc = "returned"
        /\ call.result.status = "error"
        /\ ~IsNone(call.result.error)
        /\ call.result.files = <<>>
        /\ Len(requests) = hist.entry[1].nreq
        /\ files = hist.entry[1].files
        /\ dirs = hist.entry[1].dirs

(***************************************************************************)
(* urls.py on its own: one function is applied to one input, and          *)
(* parse_akn_uri to the path that build_api_path has built                 *)
(***************************************************************************)

\* A call of a function of urls.py and its argument
UrlOp(name, arg) == [op |-> name, arg |-> arg]

\* What a call of parse_akn_uri gives: it raised, or the value it returned
ParseResult(uri) == [raised |-> parse_akn_uri_raises(uri), value |-> parse_akn_uri(uri)]

UAuth == <<"", "akn", "fi", "doc", "authority-regulation", "finanssivalvonta",
           "2024", "1", "fin@">>
\* the standard shape with authority-regulation as its type segment
UAuthStd == <<"", "akn", "fi", "doc", "authority-regulation", "2024", "1", "fin@">>
UFull == <<"https:", "", "opendata.finlex.fi", "finlex", "avoindata", "v1",
           "akn", "fi", "act", "statute", "2024", "1", "fin@">>
USlash == <<"", "akn", "fi", "act", "statute", "2024", "1%2F2", "fin@">>

UrlInputs == {U1, U2, U1Enc, UBad, UShort, UBracket, UAuth, UAuthStd, UFull, USlash}

UrlNumbers == {"1", ".", "fin@", "1%2F2"}
UrlLangs == {"fin@", "fin%40", "."}

\* Coordinates whose fields are non-empty and hold no "/": standard ones
\* without authority, authority-regulation ones with one.
StandardCoords ==
    {DocumentInfo(c, t, None, "2024", n, l) :
        c \in Categories, t \in {"statute", "kko"},
        n \in UrlNumbers, l \in UrlLangs}
AuthorityCoords ==
    {DocumentInfo("doc", "authority-regulation", Some(a), "2024", n, l) :
        a \in {"finanssivalvonta", "1996"}, n \in UrlNumbers, l \in UrlLangs}
Coords == StandardCoords \cup AuthorityCoords

UrlsUnchanged ==
    UNCHANGED <<state, state_file, entries, manifest_file, files, dirs, requests,
                lister, yielded, run, call, clock, hist>>

InitUrls ==
    /\ state = DownloadState
    /\ state_file = FileAbsent
    /\ entries = <<>>
    /\ manifest_file = ManifestAbsent
    /\ files = <<>>
    /\ dirs = {}
    /\ requests = <<>>
    /\ lister = ListerIdle
    /\ yielded = <<>>
    /\ run = RunIdle
    /\ call = CallIdle
    /\ clock = 1
    /\ lastOp = NoOp
    /\ ret = FALSE
    /\ hist = HistInit

\* parse_akn_uri(uri)
ParseAknUri(uri) ==
    /\ lastOp.op = "none"
    /\ lastOp' = UrlOp("parse_akn_uri", uri)
    /\ ret' = ParseResult(uri)
    /\ UrlsUnchanged

\* build_api_path(info)
BuildApiPath(info) ==
    /\ lastOp.op = "none"
    /\ lastOp' = UrlOp("build_api_path", info)
    /\ ret' = build_api_path(info)
    /\ UrlsUnchanged

\* parse_akn_uri(build_api_path(info)), on the path just built
ParseBuilt ==
    /\ lastOp.op = "build_api_path"
    /\ lastOp' = UrlOp("parse_built", lastOp.arg)
    /\ ret' = ParseResult(ret)
    /\ UrlsUnchanged

\* a.folder_path and b.folder_path
FolderPaths(a, b) ==
    /\ lastOp.op = "none"
    /\ lastOp' = UrlOp("folder_path", <<a, b>>)
    /\ ret' = <<folder_path(a), folder_path(b)>>
    /\ UrlsUnchanged

\* build_list_path(category, document_type)
BuildListPath(category, document_type) ==
    /\ lastOp.op = "none"
    /\ lastOp' = UrlOp("build_list_path", <<category, document_type>>)
    /\ ret' = build_list_path(category, document_type)
    /\ UrlsUnchanged

NextUrls ==
    \/ \E uri \in UrlInputs : ParseAknUri(uri)
    \/ \E info \in Coords : BuildApiPath(info)
    \/ ParseBuilt
    \/ \E a, b \in Coords : FolderPaths(a, b)
    \/ \E c \in Categories, t \in {"statute", "authority-regulation", "kko"} :
            BuildListPath(c, t)

SpecUrls == InitUrls /\ [][NextUrls]_vars

(***************************************************************************)
(* Claims on urls.py, checked under SpecUrls                               *)
(***************************************************************************)

\* C18: parse_akn_uri on the path build_api_path made of valid coordinates
\* returns those coordinates, field by field.
C18_ApiPathRoundTrip ==
    lastOp.op = "parse_built" =>
        /\ ~ret.raised
        /\ ret.value = Some(lastOp.arg)

\* C19: the coordinates parse_akn_uri returns have an authority exactly when
\* their document_type is "authority-regulation".
C19_AuthorityIffRegulation ==
    (lastOp.op \in {"parse_akn_uri", "parse_built"} /\ ~ret.raised /\ ~IsNone(ret.value)) =>
        (HasAuthority(ret.value[1])
            <=> ret.value[1].document_type = "authority-regulation")

\* C20: two valid coordinates have the same folder_path exactly when they
\* are equal.
C20_FolderPathInjective ==
    lastOp.op = "folder_path" =>
        (ret[1] = ret[2] <=> lastOp.arg[1] = lastOp.arg[2])

(***************************************************************************)
(* The manifest summary                                                    *)
(***************************************************************************)

\* The number of entries of es with the given status, counted entry by entry.
RECURSIVE Tally(_, _)
Tally(es, status) ==
    IF es = <<>> THEN 0
    ELSE Tally(Tail(es), status) + (IF Head(es).status = status THEN 1 ELSE 0)

\* C21: after any sequence of manifest adds, summary() has total = the number
\* of entries, and success, skipped and error = the number of entries with
\* exactly that status; a dry-run entry counts toward total only, so the three
\* add up to total minus the dry-run entries, and the exit code of a run that
\* reaches the summary is 0 exactly when no entry has status error.
C21_SummaryCounts ==
    LET s == summary(entries) IN
    /\ s.total = Len(entries)
    /\ s.success = Tally(entries, "success")
    /\ s.skipped = Tally(entries, "skipped")
    /\ s.error = Tally(entries, "error")
    /\ s.success + s.skipped + s.error = s.total - Tally(entries, "dry-run")
    /\ s.success + s.skipped + s.error <= s.total
    /\ (run.pc = "exited" /\ run.exit \in {Some("0"), Some("1")}) =>
           (run.exit = Some("0") <=> Tally(entries, "error") = 0)

\* A run has returned from the summary with a dry-run entry next to entries
\* of the three counted statuses in the manifest.
C21_Witness ==
    /\ run.pc = "exited" /\ run.exit \in {Some("0"), Some("1")}
    /\ Tally(entries, "dry-run") > 0
    /\ Tally(entries, "success") + Tally(entries, "skipped") + Tally(entries, "error") > 0
    /\ Len(entries) >= 3

(***************************************************************************)
(* Writes of the checkpoint and of the manifest                            *)
(***************************************************************************)

\* C22: writes of the manifest file and of the checkpoint file are never
\* torn: whenever the process has stopped, each of the two files is absent or
\* holds a complete document, never an empty or partially written one.
C22_WritesNeverTorn ==
    run.pc = "exited" =>
        /\ state_file.kind \in {"absent", "json"}
        /\ manifest_file.kind \in {"absent", "json"}

(***************************************************************************)
(* load on a missing or a corrupt checkpoint file                          *)
(***************************************************************************)

\* C24: load() on a missing or a corrupt checkpoint file returns false, and
\* afterwards the store holds a fresh empty checkpoint (current_page 1, no
\* completed uris, no active pair), whatever it held before the call.
C24_FailedLoadIsFresh ==
    (lastOp.op = "load" /\ state_file.kind # "json") =>
        /\ ret = FALSE
        /\ state.current_page = 1
        /\ state.completed_uris = {}
        /\ IsNone(state.current_category)
        /\ IsNone(state.current_document_type)

(***************************************************************************)
(* reset                                                                   *)
(***************************************************************************)

\* C23: reset() returns the in-memory checkpoint to its defaults (current_page
\* 1, no completed uris, no active pair, no timestamps), removes the
\* checkpoint file if there is one, and leaves the manifest as it was, in
\* memory and on disk.
C23_ResetClearsCheckpointOnly ==
    [][lastOp'.op = "reset" =>
          /\ state' = DownloadState
          /\ state'.current_page = 1 /\ state'.completed_uris = {}
          /\ IsNone(state'.current_category) /\ IsNone(state'.current_document_type)
          /\ IsNone(state'.started_at) /\ IsNone(state'.updated_at)
          /\ state_file' = FileAbsent
          /\ entries' = entries
          /\ manifest_file' = manifest_file]_vars

\* reset has returned on a store on which uris had been marked and saved,
\* next to a manifest with an entry.
C23_Witness ==
    /\ lastOp.op = "reset"
    /\ hist.marked # {}
    /\ state = DownloadState
    /\ state_file.kind = "absent"
    /\ entries # <<>>
    /\ manifest_file.kind = "json"

(***************************************************************************)
(* started_at                                                              *)
(***************************************************************************)

\* C25: started_at is set by the first start_session on a checkpoint that has
\* none, to the time of that call, and start_session, mark_completed,
\* set_page and save never change it once it is set; every start_session
\* sets the active category and document type to its arguments.
C25_StartedAtSetOnce ==
    [][/\ lastOp'.op \in {"start_session", "mark_completed", "set_page", "save"} =>
            (~IsNone(state.started_at) => state'.started_at = state.started_at)
       /\ lastOp'.op \in {"mark_completed", "set_page", "save"} =>
            state'.started_at = state.started_at
       /\ lastOp'.op = "start_session" =>
            /\ state'.current_category = Some(lastOp'.category)
            /\ state'.current_document_type = Some(lastOp'.document_type)
            /\ IsNone(state.started_at) => state'.started_at = Some(clock)]_vars

\* A second start_session, for another pair and at a later time than the
\* first, has returned: started_at is the earlier time, updated_at the later.
C25_Witness ==
    /\ lastOp.op = "start_session"
    /\ lastOp.category = "doc"
    /\ state.current_category = Some("doc")
    /\ state.started_at = Some(1)
    /\ state.updated_at = Some(2)
    /\ state.completed_uris # {}

(***************************************************************************)
(* Resuming and the page counter                                           *)
(***************************************************************************)

\* The run is past start_session for its current pair.
InPair == InRun /\ run.pc \notin {"reset", "load", "client", "pair", "summary"}

\* The list requests this run has sent for its current pair.
PairListRequests ==
    SelectSeq(requests,
              LAMBDA e : /\ e.kind = "list"
                         /\ e.path = build_list_path(CurCategory(run), CurDocType(run)))

\* C26: on a resumed run, paging for the pair that matches the loaded
\* checkpoint's active pair resumes at the stored page: the first list
\* request for the pair asks for page get_resume_page(category, document
\* type), and no earlier page is requested.
C26_ResumeStartsAtStoredPage ==
    (InPair /\ run.args.resume) =>
        \A i \in 1..Len(PairListRequests) :
            /\ PairListRequests[i].page >= run.resume_page
            /\ i = 1 => PairListRequests[i].page = run.resume_page

\* The number of the listing page the lister asked for last: the page the
\* item in hand was returned on.
ListingPage == ListExchanges[Len(ListExchanges)].page

\* C27: when the orchestrator has called set_page while processing an item
\* that the lister returned on listing page p of the current pair, the value
\* stored in current_page is p.
C27_SetPageStoresListingPage ==
    run.pc = "page_dump" => state.current_page = ListingPage

\* Every value other than 1 that get_resume_page can return on checkpoint st
\* was stored by a set_page under the pair it is returned for.
ResumePagesWereStored(st) ==
    (~IsNone(st.current_category) /\ ~IsNone(st.current_document_type)) =>
        LET n == get_resume_page(st, st.current_category[1], st.current_document_type[1])
        IN  n # 1 => <<st.current_category, st.current_document_type, n>> \in hist.stored

\* C28: a page counter is never resumed across pairs: in every reachable
\* checkpoint state, in memory and on disk, get_resume_page(c, t) returns a
\* value other than 1 only if that value was stored by set_page while (c, t)
\* was the active pair.
C28_NoResumeAcrossPairs ==
    /\ ResumePagesWereStored(state)
    /\ state_file.kind = "json" =>
           \A d \in {state_file.data} : ResumePagesWereStored(from_dict(d))

(***************************************************************************)
(* Order of execution                                                      *)
(***************************************************************************)

\* The item the lister yielded last.
LastYielded == yielded[Len(yielded)]

\* C29: execution is strictly sequential.  A list request is sent for the
\* current pair only, for the page after the pages already requested, while
\* the loop is asking for the next item, no document call is open and every
\* item of the earlier pages has been handed over and processed.  A document
\* request, and an entry appended to the manifest, is for the item yielded
\* last, and items are yielded in listing order.  The loops move to another
\* pair only when the lister of the current pair has terminated.
C29_StrictlySequential ==
    [][/\ Len(requests') = Len(requests) + 1 =>
            LET r == requests'[Len(requests')] IN
            IF r.kind = "list"
            THEN /\ r.path = build_list_path(CurCategory(run), CurDocType(run))
                 /\ r.page = Len(PairListRequests) + 1
                 /\ run.pc = "next" /\ run'.pc = "next"
                 /\ call.pc = "idle"
                 /\ yielded = ItemsOf(PairListRequests)
            ELSE /\ run.pc = "download"
                 /\ lister.pc = "yield"
                 /\ yielded # <<>>
                 /\ r.uri = Some(LastYielded.akn_uri)
       /\ Len(entries') = Len(entries) + 1 =>
            /\ yielded # <<>>
            /\ entries'[Len(entries')].akn_uri = LastYielded.akn_uri
            /\ lister.pc = "yield"
       /\ Len(yielded') = Len(yielded) + 1 =>
            /\ yielded' = SubSeq(ItemsOf(PairListRequests), 1, Len(yielded'))
            /\ run.pc = "next" /\ call.pc = "idle"
       /\ (run.pc \notin {"idle", "exited"} /\ run'.pc \notin {"idle", "exited"}
           /\ <<run'.ci, run'.ti>> # <<run.ci, run.ti>>) =>
            /\ lister.pc = "done"
            /\ call.pc = "idle"
            /\ yielded = ItemsOf(PairListRequests)]_vars

\* A run is at the second document type of its category after at least
\* three list requests; two documents were listed, and each was fetched and
\* its outcome appended before the loop asked for the next item.
C29_Witness ==
    /\ InPair /\ run.ti = 2
    /\ Len(ListExchanges) >= 3
    /\ Len(ItemsOf(requests)) = 2
    /\ Len(SelectSeq(requests, LAMBDA e : e.kind = "xml")) = 2
    /\ Len(entries) = 2
    /\ run.pc = "next"

(***************************************************************************)
(* Failing list requests in a run                                          *)
(***************************************************************************)

\* The request sent last was a list request that failed: a status other than
\* 200, a body that is not JSON, or the transport raising after its retries.
LastListFailed ==
    /\ requests # <<>>
    /\ LET e == requests[Len(requests)] IN
       /\ e.kind = "list"
       /\ \/ e.resp.kind = "exception"
          \/ e.resp.status_code # 200
          \/ IsNone(e.resp.json)

\* C30: whatever way a listing page request fails for a pair, the lister for
\* that pair ends as if pagination were exhausted, no exception from listing
\* reaches the orchestrator, and the run goes on with the next pair.
C30_ListingFailureIsQuiet ==
    LastListFailed =>
        /\ lister.pc \in {"done", "idle"}
        /\ lister.pc = "done" => run.pc = "next"
        /\ run.pc = "exited" => run.exit # Some("exception")

(***************************************************************************)
(* The checkpoint store and the manifest on a disk that can fail           *)
(***************************************************************************)
MaxEntries == 1

\* What the file system does to one save: nothing goes wrong, mkdir of the
\* parent directory raises, open(file, "w") raises, or json.dump raises
\* after the file was opened.
IoOutcomes == {"ok", "mkdir-fails", "open-fails", "dump-fails"}

\* StateManager.save under outcome io: updated_at is stamped; mkdir is called
\* outside the try, so its exception leaves save; open and json.dump are
\* inside try ... except Exception, which logs and returns.
save_io(st, file, now, io) ==
    LET stamped == save_stamp(st, now) IN
    [raised |-> io = "mkdir-fails",
     state |-> stamped,
     files |-> IF io \in {"mkdir-fails", "open-fails"} THEN {file}
               ELSE IF io = "dump-fails" THEN {FileTorn}
               ELSE save_dump(stamped)]

\* ManifestManager._save under outcome io: the same structure as save.
manifest_save_io(es, file, now, io) ==
    [raised |-> io = "mkdir-fails",
     file |-> IF io \in {"mkdir-fails", "open-fails"} THEN file
              ELSE IF io = "dump-fails" THEN ManifestTorn
              ELSE ManifestJson(es, now)]

InitSave ==
    /\ state = DownloadState
    /\ state_file = FileAbsent
    /\ manifest_file = ManifestAbsent
    /\ entries = <<>>
    /\ files = <<>>
    /\ dirs = {}
    /\ requests = <<>>
    /\ lister = ListerIdle
    /\ yielded = <<>>
    /\ run = RunIdle
    /\ call = CallIdle
    /\ clock = 1
    /\ lastOp = NoOp
    /\ ret = "none"
    /\ hist = HistInit

\* The update st of the checkpoint followed by save() under outcome io.
SavedIo(st, io) ==
    /\ state' = save_io(st, state_file, clock, io).state
    /\ state_file' \in save_io(st, state_file, clock, io).files
    /\ ret' = IF save_io(st, state_file, clock, io).raised THEN "raised" ELSE "returned"
    /\ UNCHANGED <<entries, manifest_file, hist, clock>>
    /\ RestUnchanged

SaveIo(io) ==
    /\ SavedIo(state, io)
    /\ lastOp' = Op("save")

StartSessionIo(category, document_type, io) ==
    /\ SavedIo(start_session(state, category, document_type, clock), io)
    /\ lastOp' = [Op("start_session") EXCEPT !.category = category,
                                             !.document_type = document_type]

MarkCompletedIo(uri, io) ==
    /\ SavedIo(mark_completed(state, uri), io)
    /\ lastOp' = [Op("mark_completed") EXCEPT !.uri = Some(uri)]

SetPageIo(page, io) ==
    /\ SavedIo(set_page(state, page), io)
    /\ lastOp' = [Op("set_page") EXCEPT !.page = page]

\* ManifestManager.add(entry) under outcome io
ManifestAddIo(status, io) ==
    /\ Len(entries) < MaxEntries
    /\ entries' = manifest_add(entries,
                     ManifestEntry([DownloadResult(U1, clock) EXCEPT !.status = status]))
    /\ manifest_file' = manifest_save_io(entries', manifest_file, clock, io).file
    /\ ret' = IF manifest_save_io(entries', manifest_file, clock, io).raised
              THEN "raised" ELSE "returned"
    /\ lastOp' = [Op("add") EXCEPT !.category = status]
    /\ UNCHANGED <<state, state_file, files, dirs, requests, lister, yielded, run,
                   call, clock, hist>>

NextSave ==
    \/ \E io \in IoOutcomes : SaveIo(io)
    \/ \E t \in StateTypes, io \in IoOutcomes : StartSessionIo("act", t, io)
    \/ \E u \in StateUris, io \in IoOutcomes : MarkCompletedIo(u, io)
    \/ \E n \in 1..MaxPage, io \in IoOutcomes : SetPageIo(n, io)
    \/ \E s \in {"success", "error"}, io \in IoOutcomes : ManifestAddIo(s, io)

SpecSave == InitSave /\ [][NextSave]_vars

\* C31: if persisting the checkpoint or the manifest fails with any I/O
\* failure during save (creating the parent directory or writing the file),
\* the in-memory update is kept and the calling operation returns normally.
C31_SaveFailureIsContained ==
    /\ lastOp.op \in {"save", "start_session", "mark_completed", "set_page", "add"} =>
           ret = "returned"
    /\ lastOp.op = "start_session" =>
           /\ state.current_category = Some(lastOp.category)
           /\ state.current_document_type = Some(lastOp.document_type)
    /\ lastOp.op = "mark_completed" => lastOp.uri[1] \in state.completed_uris
    /\ lastOp.op = "set_page" => state.current_page = lastOp.page
    /\ lastOp.op = "add" =>
           /\ entries # <<>>
           /\ entries[Len(entries)].status = lastOp.category

(***************************************************************************)
(* Interrupting a run                                                      *)
(***************************************************************************)

\* The exit of a run that the user interrupted.
Interrupted(r) ==
    r.pc = "exited" /\ r.exit \in {Some("130"), Some("KeyboardInterrupt")}

\* C32: when the user interrupts a run at any step, run_download sends no
\* further request and returns the exit status 130; every manifest entry
\* and checkpoint update recorded before the interruption is on disk (all
\* entries but one whose add was cut short), and files already fetched are
\* left as they are.
C32_InterruptIsClean ==
    [][/\ (InRun /\ Interrupted(run')) =>
            /\ run'.exit = Some("130")
            /\ requests' = requests
            /\ files' = files /\ dirs' = dirs
            /\ entries' = entries
            /\ Len(entries) > 0 =>
                 /\ manifest_file'.kind = "json"
                 /\ Len(manifest_file'.data.entries) >= Len(entries) - 1
                 /\ manifest_file'.data.entries =
                        SubSeq(entries, 1, Len(manifest_file'.data.entries))
            /\ state_file'.kind \in {"absent", "json"}
       /\ (run.pc = "exited" /\ run'.pc = "exited") => requests' = requests]_vars

(***************************************************************************)
(* Termination of a run                                                    *)
(***************************************************************************)

\* The steps of a run that started: everything but the start of a run and
\* the user's interrupt.  The interpreter keeps executing a started run.
RunStep ==
    \/ RunReset \/ RunLoad \/ RunClient \/ RunStartSession \/ RunSessionDump
    \/ ListMaxPages \/ (\E resp \in RunListResponses : ListRequest(resp))
    \/ ListYield \/ ListPageEnd
    \/ RunItem \/ (\E resp \in RunXmlResponses : DlGetXml(resp))
    \/ DlOpenXml \/ DlWriteXml \/ (\E resp \in RunPdfResponses : DlPdf(resp))
    \/ DlOpenPdf \/ DlWritePdf
    \/ RunManifestAdd \/ RunManifestDump \/ RunMark \/ RunMarkDump
    \/ RunSetPage \/ RunPageDump \/ RunPairDone
    \/ RunListRaised \/ RunDownloadRaised \/ RunSummary

SpecRunLive == SpecRun /\ WF_vars(RunStep)

\* The transport raised on a list request of this run: the listing did not
\* return a page.
ListingRaised ==
    \E i \in 1..Len(requests) :
        requests[i].kind = "list" /\ requests[i].resp.kind = "exception"

\* C33: the lister produces a finite sequence and the run terminates: when
\* every list request is answered with a page (the endpoint serves finitely
\* many items, so each pair's listing ends with a short, empty, failed or
\* unparseable page, or at max_pages), every lister that was started stops
\* and run_download returns an exit code: 0 or 1, or 130 when interrupted.
C33_RunReturnsExitCode ==
    /\ [](InRun => <>(/\ run.pc = "exited"
                      /\ \/ run.exit \in {Some("0"), Some("1"), Some("130"),
                                          Some("KeyboardInterrupt")}
                         \/ ListingRaised))
    /\ [](lister.pc \in {"top", "yield"} => <>(lister.pc \in {"done", "idle", "raised"}))

(***************************************************************************)
(* Manifest entries of one run                                             *)
(***************************************************************************)

\* The entries the run in progress has appended.
RunEntries == SubSeq(entries, hist.loaded + 1, Len(entries))

\* C34: in a single run at most one outcome per uri is created and appended
\* to the manifest, and an entry is never changed after it was appended:
\* later appends only extend the sequence.
C34_OneEntryPerUri ==
    [][run'.n = run.n =>
          /\ Len(entries') >= Len(entries)
          /\ SubSeq(entries', 1, Len(entries)) = entries
          /\ \A i, j \in hist'.loaded + 1 .. Len(entries') :
                 entries'[i].akn_uri = entries'[j].akn_uri => i = j]_vars

(***************************************************************************)
(* What a run marks as completed                                           *)
(***************************************************************************)

\* C35: every uri that run_download adds to completed_uris has a manifest
\* entry with status success or skipped that was appended earlier in the same
\* run, as the last entry before the mark_completed call; after an outcome
\* error or dry-run the uri is not added.
C35_MarkedHasEntry ==
    [][(InRun /\ run'.n = run.n /\ run.pc # "load") =>
          /\ \A u \in state'.completed_uris \ state.completed_uris :
                /\ run.pc = "mark"
                /\ u = run.item.akn_uri
                /\ Len(entries) > hist.loaded
                /\ entries[Len(entries)].akn_uri = u
                /\ entries[Len(entries)].status \in {"success", "skipped"}
                /\ entries' = entries
          /\ (run.pc = "manifest_dump" /\ run'.pc # "exited"
              /\ entries[Len(entries)].status \in {"error", "dry-run"}) =>
                /\ run'.pc = "set_page"
                /\ state' = state]_vars

\* A run has appended a success entry for U1 and marked it, and an error
\* entry for UBad, which it did not mark.
C35_Witness ==
    /\ run.pc = "set_page"
    /\ Len(RunEntries) = 2
    /\ RunEntries[1].akn_uri = U1 /\ RunEntries[1].status = "success"
    /\ RunEntries[2].akn_uri = UBad /\ RunEntries[2].status = "error"
    /\ state.completed_uris = {U1}
    /\ hist.marked = {U1}

(***************************************************************************)
(* A run without --resume and without --reset                              *)
(***************************************************************************)

\* The run in r was started with neither --resume nor --reset.
PlainRun(r) == r.pc \notin {"idle", "exited"} /\ ~r.args.resume /\ ~r.args.reset

\* C36: a run started without --resume and without --reset never reads the
\* persisted checkpoint: it starts with is_completed false for every uri,
\* and its first start_session overwrites the checkpoint file with a state
\* whose completed_uris is empty.
C36_PlainRunDiscardsCheckpoint ==
    [][/\ PlainRun(run') =>
            /\ run'.pc \notin {"load", "reset"}
            /\ run'.n # run.n =>
                 /\ \A u \in RunUris : ~is_completed(state', u)
                 /\ state' = DownloadState
                 /\ state_file' = state_file
       /\ (PlainRun(run) /\ run.pc = "session_dump" /\ run'.pc = "next"
           /\ run.ci = 1 /\ run.ti = 1) =>
            /\ state_file'.kind = "json"
            /\ state_file'.data.completed_uris = <<>>
            /\ from_dict(state_file'.data).completed_uris = {}]_vars

\* The second run, started without --resume and --reset after a run that
\* fetched U1 and appended its entry, has returned from its first start_session:
\* the checkpoint file holds no completed uri.
C36_Witness ==
    /\ run.n = 2 /\ PlainRun(run)
    /\ run.pc = "next" /\ run.ci = 1 /\ run.ti = 1 /\ run.page = 0
    /\ hist.loaded >= 1
    /\ entries[1].akn_uri = U1 /\ entries[1].status = "success"
    /\ U1Dir \in hist.fetched
    /\ state_file.kind = "json"
    /\ state_file.data.completed_uris = <<>>

(***************************************************************************)
(* The exit code and the manifest of earlier runs                          *)
(***************************************************************************)

\* C37: a run that is not interrupted and reaches the summary returns 1 if
\* and only if the manifest, the entries loaded from the file of earlier
\* runs included, holds an entry with status error, and 0 otherwise; a run
\* starts from the entries of the manifest file.
C37_ExitCodeCountsLoadedErrors ==
    [][/\ run'.n # run.n =>
            entries' = IF manifest_file.kind = "json"
                       THEN manifest_file.data.entries ELSE <<>>
       /\ (run.pc = "summary" /\ run'.exit \notin {Some("130"), Some("KeyboardInterrupt")}) =>
            /\ run'.pc = "exited"
            /\ entries' = entries
            /\ run'.exit = IF \E i \in 1..Len(entries) : entries[i].status = "error"
                           THEN Some("1") ELSE Some("0")]_vars

\* The second run has returned 1 although every entry it appended itself is
\* a success: the error entry was loaded from the first run's manifest.
C37_Witness ==
    /\ run.n = 2 /\ run.pc = "exited" /\ run.exit = Some("1")
    /\ hist.loaded >= 1
    /\ \E i \in 1..hist.loaded : entries[i].status = "error"
    /\ Len(RunEntries) >= 1
    /\ \A i \in 1..Len(RunEntries) : RunEntries[i].status = "success"

(***************************************************************************)
(* --resume together with --force                                          *)
(***************************************************************************)

\* The run in progress was started with --resume and --force, without
\* --dry-run.
ResumedForced == InRun /\ run.args.resume /\ run.args.force /\ ~run.args.dry_run

\* C38: the checkpoint takes precedence over force: in a run with --resume
\* and --force a listed uri that is in completed_uris is passed over before
\* download_document is called, so nothing is requested for it, while a
\* parseable uri that is not in completed_uris and whose main.xml exists is
\* fetched again.
C38_CheckpointBeforeForce ==
    [][/\ (ResumedForced /\ run.pc = "item" /\ is_completed(state, run.item.akn_uri)) =>
            /\ call' = CallIdle
            /\ requests' = requests
            /\ entries' = entries
            /\ files' = files
            /\ run'.pc \in {"next", "exited"}
       /\ (ResumedForced /\ run.pc = "item" /\ run'.pc # "exited"
           /\ ~is_completed(state, run.item.akn_uri)
           /\ ~IsNone(parse_akn_uri(run.item.akn_uri))
           /\ Exists(files, XmlPathOf(run.item.akn_uri))) =>
            /\ run'.pc = "download"
            /\ call'.pc = "get_xml"
            /\ call'.akn_uri = run.item.akn_uri
       /\ (ResumedForced /\ call.pc = "get_xml" /\ run'.pc # "exited") =>
            /\ Len(requests') = Len(requests) + 1
            /\ requests'[Len(requests')].kind = "xml"
            /\ requests'[Len(requests')].uri = Some(call.akn_uri)]_vars

\* A second run with --resume and --force was listed U1, which the loaded
\* checkpoint holds, and U2, which it does not hold and whose main.xml was
\* on disk: its only document request is the one for U2.
C38_Witness ==
    /\ run.n = 2 /\ ResumedForced
    /\ Len(yielded) = 2
    /\ yielded[1].akn_uri = U1 /\ yielded[2].akn_uri = U2
    /\ is_completed(state, U1) /\ U1 \notin hist.marked
    /\ ~IsNone(hist.entry)
    /\ Exists(hist.entry[1].files, XmlPathOf(U2))
    /\ \E i \in 1..Len(requests) : requests[i].kind = "xml" /\ requests[i].uri = Some(U2)
    /\ \A i \in 1..Len(requests) : requests[i].kind = "xml" => requests[i].uri = Some(U2)

=============================================================================
